---- MODULE Spec2Model ----
(***************************************************************************)
(* Model of the flow-runtime type parameter machinery:                     *)
(*   - TypeParameter (packages/flow-runtime/src/types/TypeParameter.js)    *)
(*   - ParameterizedFunctionType and getPartial (unnamed/part_001)         *)
(*   - convert of the annotation converter (unnamed/part_002)              *)
(*   - registerTypePredicates                                              *)
(*   - the handlers of the playground page (unnamed/part_000)              *)
(* Descriptors are records carrying a typeName tag.  Type parameters are   *)
(* mutable objects; they live in a store (a sequence of records) and are   *)
(* referred to by their index in that store.                               *)
(***************************************************************************)
EXTENDS Integers, Sequences, FiniteSets, TLC

VARIABLES tps, fn, partial, last, program, context, emitted, predicates,
          compiler

vars ==
  <<tps, fn, partial, last, program, context, emitted, predicates, compiler>>

\* The state of the runtime type descriptors, and the state of the converter,
\* of the predicate registry and of the playground page.
typeVars == <<tps, fn, partial, last>>
convVars == <<program, context, emitted, predicates, compiler>>

(***************************************************************************)
(* Bounds of the model.                                                    *)
(***************************************************************************)
\* The number of stand-alone type parameters.
NumParams == 2
\* The longest list of type instances passed to a ParameterizedFunctionType.
MaxInstances == 3

(***************************************************************************)
(* Values and descriptors.                                                 *)
(***************************************************************************)
\* JavaScript values used as inputs: a number, a string, a boolean; "f" is
\* a function.
Values == {"n1", "sa", "bt"}

JsTypeof(v) ==
  CASE v = "n1" -> "number"
    [] v = "sa" -> "string"
    [] v = "bt" -> "boolean"
    [] v = "f" -> "function"
    [] OTHER -> "undefined"

\* An absent field (undefined).
None == [typeName |-> "None"]

Prim(name) == [typeName |-> name]
AnyType == Prim("AnyType")
ExistentialType == Prim("ExistentialType")
NumberType == Prim("NumberType")
StringType == Prim("StringType")
BooleanType == Prim("BooleanType")
VoidType == Prim("VoidType")

UnionType(ts) == [typeName |-> "UnionType", types |-> ts]
IntersectionType(ts) == [typeName |-> "IntersectionType", types |-> ts]

\* A FlowIntoType wrapping the type parameter at index q of the store.
FlowIntoType(q) == [typeName |-> "FlowIntoType", typeParameter |-> q]

\* A reference to the type parameter object at index p of the store.
TypeParameterRef(p) == [typeName |-> "TypeParameter", index |-> p]

\* bound instanceof FlowIntoType
IsFlowInto(t) == t.typeName = "FlowIntoType"

\* A TypeParameter object: id, bound and recorded (TypeParameter.js:15-20).
TypeParameter(id, bound) == [id |-> id, bound |-> bound, recorded |-> None]

(***************************************************************************)
(* Descriptors other than TypeParameter.                                   *)
(***************************************************************************)
\* accepts of the descriptors that carry no members.
PrimAccepts(t, v) ==
  CASE t.typeName \in {"AnyType", "ExistentialType", "MixedType"} -> TRUE
    [] t.typeName = "NumberType" -> JsTypeof(v) = "number"
    [] t.typeName = "StringType" -> JsTypeof(v) = "string"
    [] t.typeName = "BooleanType" -> JsTypeof(v) = "boolean"
    [] t.typeName = "VoidType" -> JsTypeof(v) = "undefined"
    [] t.typeName = "FunctionType" -> JsTypeof(v) = "function"
    [] OTHER -> FALSE

\* One record of a Validation.
ErrorRecord(path, expected, actual) ==
  [path |-> path, expected |-> expected, actual |-> actual]

\* context.typeOf(input): the inferred descriptor of a value's shape.
typeOf(v) ==
  CASE JsTypeof(v) = "number" -> NumberType
    [] JsTypeof(v) = "string" -> StringType
    [] JsTypeof(v) = "boolean" -> BooleanType
    [] JsTypeof(v) = "function" -> Prim("FunctionType")
    [] OTHER -> VoidType

\* context.union(recorded, typeOf(input)), flattening a recorded union.
union(a, b) ==
  IF a.typeName = "UnionType"
    THEN UnionType(Append(a.types, b))
    ELSE UnionType(<<a, b>>)

\* context.intersect(a, b)
intersect(a, b) == IntersectionType(<<a, b>>)

(***************************************************************************)
(* accepts and collectErrors dispatch on the descriptor's kind.  Each      *)
(* returns the store after the call beside the returned flag, since a type *)
(* parameter reached through a descriptor may record.                      *)
(***************************************************************************)
RECURSIVE Accepts(_, _, _)
RECURSIVE CollectErrors(_, _, _, _, _)
RECURSIVE FlowIntoAccepts(_, _, _)
RECURSIVE UnionAccepts(_, _, _, _)
RECURSIVE IntersectionAccepts(_, _, _, _)
RECURSIVE IntersectionCollectErrors(_, _, _, _, _, _)
RECURSIVE UnwrapType(_, _)
RECURSIVE AcceptsType(_, _, _)
RECURSIVE AcceptsTypeSome(_, _, _, _)
RECURSIVE AcceptsTypeEvery(_, _, _, _)
RECURSIVE ToStringType(_, _)

(***************************************************************************)
(* Faulty variants of TypeParameter.accepts, used to test the properties.  *)
(***************************************************************************)
\* accepts without the test for an existing recorded type.
TPAcceptsIgnoringRecorded(store, p, v) ==
  LET bound == store[p].bound IN
  IF IsFlowInto(bound)
    THEN Accepts(store, bound, v)
  ELSE IF bound # None /\ bound.typeName \in {"AnyType", "ExistentialType"}
    THEN [ret |-> TRUE, store |-> store]
  ELSE LET b == IF bound # None THEN Accepts(store, bound, v)
                ELSE [ret |-> TRUE, store |-> store]
       IN IF ~b.ret
            THEN [ret |-> FALSE, store |-> b.store]
            ELSE [ret |-> TRUE,
                  store |-> [b.store EXCEPT ![p].recorded = typeOf(v)]]

\* accepts that forgets to record the first observation.
TPAcceptsNotRecording(store, p, v) ==
  LET recorded == store[p].recorded
      bound == store[p].bound
  IN
  IF IsFlowInto(bound)
    THEN Accepts(store, bound, v)
  ELSE IF recorded # None
    THEN Accepts(store, recorded, v)
  ELSE IF bound # None /\ bound.typeName \in {"AnyType", "ExistentialType"}
    THEN [ret |-> TRUE, store |-> store]
  ELSE IF bound # None THEN Accepts(store, bound, v)
  ELSE [ret |-> TRUE, store |-> store]

\* accepts that records on the parameter itself after deferring to a
\* FlowIntoType bound.
TPAcceptsRecordingUnderFlowInto(store, p, v) ==
  LET recorded == store[p].recorded
      bound == store[p].bound
  IN
  IF recorded # None
    THEN Accepts(store, recorded, v)
  ELSE IF bound # None /\ bound.typeName \in {"AnyType", "ExistentialType"}
    THEN [ret |-> TRUE, store |-> store]
  ELSE LET b == IF bound # None THEN Accepts(store, bound, v)
                ELSE [ret |-> TRUE, store |-> store]
       IN IF ~b.ret
            THEN [ret |-> FALSE, store |-> b.store]
            ELSE [ret |-> TRUE,
                  store |-> [b.store EXCEPT ![p].recorded = typeOf(v)]]

\* accepts without the special case for a bound of any / existential.
TPAcceptsRecordingUnderAny(store, p, v) ==
  LET recorded == store[p].recorded
      bound == store[p].bound
  IN
  IF IsFlowInto(bound)
    THEN Accepts(store, bound, v)
  ELSE IF recorded # None
    THEN Accepts(store, recorded, v)
  ELSE LET b == IF bound # None THEN Accepts(store, bound, v)
                ELSE [ret |-> TRUE, store |-> store]
       IN IF ~b.ret
            THEN [ret |-> FALSE, store |-> b.store]
            ELSE [ret |-> TRUE,
                  store |-> [b.store EXCEPT ![p].recorded = typeOf(v)]]

\* accepts that records before it has asked the bound.
TPAcceptsRecordingEarly(store, p, v) ==
  LET recorded == store[p].recorded
      bound == store[p].bound
  IN
  IF IsFlowInto(bound)
    THEN Accepts(store, bound, v)
  ELSE IF recorded # None
    THEN Accepts(store, recorded, v)
  ELSE IF bound # None /\ bound.typeName \in {"AnyType", "ExistentialType"}
    THEN [ret |-> TRUE, store |-> store]
  ELSE LET b == IF bound # None THEN Accepts(store, bound, v)
                ELSE [ret |-> TRUE, store |-> store]
       IN [ret |-> b.ret,
           store |-> [b.store EXCEPT ![p].recorded = typeOf(v)]]

\* accepts that narrows the bound to what it records.
TPAcceptsNarrowingBound(store, p, v) ==
  LET recorded == store[p].recorded
      bound == store[p].bound
  IN
  IF IsFlowInto(bound)
    THEN Accepts(store, bound, v)
  ELSE IF recorded # None
    THEN Accepts(store, recorded, v)
  ELSE IF bound # None /\ bound.typeName \in {"AnyType", "ExistentialType"}
    THEN [ret |-> TRUE, store |-> store]
  ELSE LET b == IF bound # None THEN Accepts(store, bound, v)
                ELSE [ret |-> TRUE, store |-> store]
       IN IF ~b.ret
            THEN [ret |-> FALSE, store |-> b.store]
            ELSE [ret |-> TRUE,
                  store |-> [b.store EXCEPT ![p].recorded = typeOf(v),
                                            ![p].bound = typeOf(v)]]

(***************************************************************************)
(* TypeParameter.accepts(input)                                            *)
(***************************************************************************)
TPAccepts(store, p, v) ==
  LET recorded == store[p].recorded
      bound == store[p].bound
  IN
  IF IsFlowInto(bound)
    THEN Accepts(store, bound, v)
  ELSE IF recorded # None
    THEN Accepts(store, recorded, v)
  ELSE IF bound # None /\ bound.typeName \in {"AnyType", "ExistentialType"}
    THEN [ret |-> TRUE, store |-> store]
  ELSE LET b == IF bound # None THEN Accepts(store, bound, v)
                ELSE [ret |-> TRUE, store |-> store]
       IN IF ~b.ret
            THEN [ret |-> FALSE, store |-> b.store]
            ELSE [ret |-> TRUE,
                  store |-> [b.store EXCEPT ![p].recorded = typeOf(v)]]

(***************************************************************************)
(* TypeParameter.collectErrors(validation, path, input).  errors is the    *)
(* validation's list of records, ret the returned flag.                    *)
(***************************************************************************)
TPCollectErrors(store, errors, path, p, v) ==
  LET recorded == store[p].recorded
      bound == store[p].bound
  IN
  IF IsFlowInto(bound)
    THEN LET r == Accepts(store, bound, v)
         IN [ret |-> r.ret, store |-> r.store, errors |-> errors]
  ELSE IF recorded # None
    THEN CollectErrors(store, errors, path, recorded, v)
  ELSE IF bound # None /\ bound.typeName \in {"AnyType", "ExistentialType"}
    THEN [ret |-> FALSE, store |-> store, errors |-> errors]
  ELSE LET b == IF bound # None THEN CollectErrors(store, errors, path, bound, v)
                ELSE [ret |-> FALSE, store |-> store, errors |-> errors]
       IN IF b.ret
            THEN [ret |-> TRUE, store |-> b.store, errors |-> b.errors]
            ELSE [ret |-> FALSE,
                  store |-> [b.store EXCEPT ![p].recorded = typeOf(v)],
                  errors |-> b.errors]

\* A faulty unwrap that returns recorded or bound as they are.
TPUnwrapShallow(store, p) ==
  LET recorded == store[p].recorded
      bound == store[p].bound
  IN
  IF recorded # None THEN recorded
  ELSE IF bound # None THEN bound
  ELSE TypeParameterRef(p)

(***************************************************************************)
(* TypeParameter.unwrap()                                                  *)
(***************************************************************************)
TPUnwrap(store, p) ==
  LET recorded == store[p].recorded
      bound == store[p].bound
  IN
  IF recorded # None THEN UnwrapType(store, recorded)
  ELSE IF bound # None THEN UnwrapType(store, bound)
  ELSE TypeParameterRef(p)

(***************************************************************************)
(* TypeParameter.acceptsType(input)                                        *)
(***************************************************************************)
\* acceptsType, were it to ask the bound before the recorded type.
TPAcceptsTypeBoundFirst(store, p, input) ==
  LET recorded == store[p].recorded
      bound == store[p].bound
  IN
  IF input.typeName = "TypeParameter"
    THEN [ret |-> TRUE, store |-> store]
  ELSE IF bound # None
    THEN AcceptsType(store, bound, input)
  ELSE IF recorded # None
    THEN AcceptsType(store, recorded, input)
  ELSE [ret |-> TRUE, store |-> store]

TPAcceptsType(store, p, input) ==
  LET recorded == store[p].recorded
      bound == store[p].bound
  IN
  IF input.typeName = "TypeParameter"
    THEN [ret |-> TRUE, store |-> store]
  ELSE IF recorded # None
    THEN AcceptsType(store, recorded, input)
  ELSE IF bound # None
    THEN AcceptsType(store, bound, input)
  ELSE [ret |-> TRUE, store |-> store]

(***************************************************************************)
(* TypeParameter.toString(withBinding).  A string is the sequence of its   *)
(* pieces.                                                                 *)
(***************************************************************************)
TPToString(store, p, withBinding) ==
  LET id == store[p].id
      bound == store[p].bound
  IN
  IF withBinding /\ bound # None
    THEN <<id, ": ">> \o ToStringType(store, bound)
    ELSE <<id>>

(***************************************************************************)
(* TypeParameter.toJSON()                                                  *)
(***************************************************************************)
TPToJSON(store, p) ==
  [typeName |-> "TypeParameter", id |-> store[p].id,
   bound |-> store[p].bound, recorded |-> store[p].recorded]

(***************************************************************************)
(* FlowIntoType: the write-capable wrapper of a type parameter.  On check  *)
(* it follows the ordering rules of the wrapped parameter, except that an  *)
(* existing recorded type is widened instead of being final.               *)
(***************************************************************************)
FlowIntoAccepts(store, q, v) ==
  LET tp == store[q] IN
  IF IsFlowInto(tp.bound)
    THEN FlowIntoAccepts(store, tp.bound.typeParameter, v)
  ELSE IF tp.bound # None /\ tp.bound.typeName \in {"AnyType", "ExistentialType"}
    THEN [ret |-> TRUE, store |-> store]
  ELSE LET b == IF tp.bound # None THEN Accepts(store, tp.bound, v)
                ELSE [ret |-> TRUE, store |-> store]
           now == b.store[q].recorded
       IN IF ~b.ret
            THEN [ret |-> FALSE, store |-> b.store]
          ELSE IF now = None
            THEN [ret |-> TRUE,
                  store |-> [b.store EXCEPT ![q].recorded = typeOf(v)]]
          ELSE LET r == Accepts(b.store, now, v) IN
               IF r.ret
                 THEN [ret |-> TRUE, store |-> r.store]
                 ELSE [ret |-> TRUE,
                       store |-> [r.store EXCEPT
                                    ![q].recorded = union(now, typeOf(v))]]

\* UnionType.accepts: the members are tried in declared order from i on.
UnionAccepts(store, types, v, i) ==
  IF i > Len(types) THEN [ret |-> FALSE, store |-> store]
  ELSE LET r == Accepts(store, types[i], v) IN
       IF r.ret THEN r ELSE UnionAccepts(r.store, types, v, i + 1)

\* IntersectionType.accepts: every member, stopping at the first miss.
IntersectionAccepts(store, types, v, i) ==
  IF i > Len(types) THEN [ret |-> TRUE, store |-> store]
  ELSE LET r == Accepts(store, types[i], v) IN
       IF ~r.ret THEN r ELSE IntersectionAccepts(r.store, types, v, i + 1)

\* IntersectionType.collectErrors: every member, stopping at the first miss.
IntersectionCollectErrors(store, errors, path, types, v, i) ==
  IF i > Len(types) THEN [ret |-> FALSE, store |-> store, errors |-> errors]
  ELSE LET r == CollectErrors(store, errors, path, types[i], v) IN
       IF r.ret THEN r
       ELSE IntersectionCollectErrors(r.store, r.errors, path, types, v, i + 1)

\* t.accepts(v)
Accepts(store, t, v) ==
  CASE t.typeName = "TypeParameter" -> TPAccepts(store, t.index, v)
    [] t.typeName = "FlowIntoType" -> FlowIntoAccepts(store, t.typeParameter, v)
    [] t.typeName = "UnionType" -> UnionAccepts(store, t.types, v, 1)
    [] t.typeName = "IntersectionType" ->
         IntersectionAccepts(store, t.types, v, 1)
    [] OTHER -> [ret |-> PrimAccepts(t, v), store |-> store]

\* t.collectErrors(validation, path, v): the same logic as accepts, leaving
\* a record (path, expected, actual) when the value does not conform.
CollectErrors(store, errors, path, t, v) ==
  CASE t.typeName = "TypeParameter" ->
         TPCollectErrors(store, errors, path, t.index, v)
    [] t.typeName = "IntersectionType" ->
         IntersectionCollectErrors(store, errors, path, t.types, v, 1)
    [] OTHER ->
         LET r == Accepts(store, t, v) IN
         [ret |-> ~r.ret, store |-> r.store,
          errors |-> IF r.ret THEN errors
                     ELSE Append(errors, ErrorRecord(path, t, v))]

\* t.unwrap()
UnwrapType(store, t) ==
  CASE t.typeName = "TypeParameter" -> TPUnwrap(store, t.index)
    [] t.typeName = "FlowIntoType" -> TPUnwrap(store, t.typeParameter)
    [] OTHER -> t

\* UnionType.acceptsType: some member accepts the input type.
AcceptsTypeSome(store, types, input, i) ==
  IF i > Len(types) THEN [ret |-> FALSE, store |-> store]
  ELSE LET r == AcceptsType(store, types[i], input) IN
       IF r.ret THEN r ELSE AcceptsTypeSome(r.store, types, input, i + 1)

\* IntersectionType.acceptsType: every member accepts the input type.
AcceptsTypeEvery(store, types, input, i) ==
  IF i > Len(types) THEN [ret |-> TRUE, store |-> store]
  ELSE LET r == AcceptsType(store, types[i], input) IN
       IF ~r.ret THEN r ELSE AcceptsTypeEvery(r.store, types, input, i + 1)

\* t.acceptsType(input)
AcceptsType(store, t, input) ==
  CASE t.typeName = "TypeParameter" -> TPAcceptsType(store, t.index, input)
    [] t.typeName = "FlowIntoType" ->
         TPAcceptsType(store, t.typeParameter, input)
    [] t.typeName = "UnionType" -> AcceptsTypeSome(store, t.types, input, 1)
    [] t.typeName = "IntersectionType" ->
         AcceptsTypeEvery(store, t.types, input, 1)
    [] t.typeName \in {"AnyType", "ExistentialType"} ->
         [ret |-> TRUE, store |-> store]
    [] OTHER -> [ret |-> input.typeName = t.typeName, store |-> store]

\* t.toString()
ToStringType(store, t) ==
  CASE t.typeName = "TypeParameter" -> TPToString(store, t.index, FALSE)
    [] t.typeName = "FlowIntoType" -> TPToString(store, t.typeParameter, FALSE)
    [] t.typeName \in {"UnionType", "IntersectionType"} ->
         <<t.typeName, Len(t.types)>>
    [] OTHER -> <<t.typeName>>

(***************************************************************************)
(* FunctionType: the params are checked in declared order.                 *)
(***************************************************************************)
FunctionType(params, returnType) ==
  [typeName |-> "FunctionType", params |-> params, returnType |-> returnType]

\* FunctionType.acceptsParams(...args), from parameter i on.
RECURSIVE AcceptsParamsFrom(_, _, _, _)
AcceptsParamsFrom(store, params, args, i) ==
  IF i > Len(params) THEN [ret |-> TRUE, store |-> store]
  ELSE LET r == Accepts(store, params[i], args[i]) IN
       IF ~r.ret THEN r
       ELSE AcceptsParamsFrom(r.store, params, args, i + 1)

\* The validation filled by FunctionType.assertParams(...args), from
\* parameter i on.
RECURSIVE CollectParamsFrom(_, _, _, _, _)
CollectParamsFrom(store, errors, params, args, i) ==
  IF i > Len(params) THEN [store |-> store, errors |-> errors]
  ELSE LET r == CollectErrors(store, errors, <<"arguments", i>>,
                              params[i], args[i])
       IN CollectParamsFrom(r.store, r.errors, params, args, i + 1)

(***************************************************************************)
(* ParameterizedFunctionType and getPartial.                               *)
(***************************************************************************)
\* Descriptor objects with an identity, compared with !== by getPartial.
Obj(name, oid) == [typeName |-> name, oid |-> oid]

ParameterizedFunctionType(bodyCreator) ==
  [typeName |-> "ParameterizedFunctionType", bodyCreator |-> bodyCreator]

\* A PartialType: its own type parameters and the type made from the body.
PartialType(typeParameters, type) ==
  [typeParameters |-> typeParameters, type |-> type]

NoPartial == PartialType(<< >>, None)

\* new PartialType(context); bodyCreator(partial); context.function(...body)
NewPartial(parent) ==
  LET body == parent.bodyCreator IN
  PartialType(
    [i \in 1..Len(body.typeParameters) |->
       TypeParameter(body.typeParameters[i].id, body.typeParameters[i].bound)],
    FunctionType(body.params, body.returnType))

\* A faulty binding loop that intersects whenever the parameter is bound,
\* without comparing the bound with the type instance.
BindTypeInstancesAlwaysIntersecting(part, typeInstances) ==
  LET typeParameters == part.typeParameters
      limit == IF Len(typeInstances) < Len(typeParameters)
                 THEN Len(typeInstances) ELSE Len(typeParameters)
  IN
  [part EXCEPT !.typeParameters =
     [i \in 1..Len(typeParameters) |->
        IF i > limit THEN typeParameters[i]
        ELSE IF typeParameters[i].bound # None
          THEN [typeParameters[i] EXCEPT
                  !.bound = intersect(typeParameters[i].bound, typeInstances[i])]
        ELSE [typeParameters[i] EXCEPT !.bound = typeInstances[i]]]]

\* The loop of getPartial binding the type instances.
BindTypeInstances(part, typeInstances) ==
  LET typeParameters == part.typeParameters
      limit == IF Len(typeInstances) < Len(typeParameters)
                 THEN Len(typeInstances) ELSE Len(typeParameters)
  IN
  [part EXCEPT !.typeParameters =
     [i \in 1..Len(typeParameters) |->
        IF i > limit THEN typeParameters[i]
        ELSE IF typeParameters[i].bound # None
                /\ typeParameters[i].bound # typeInstances[i]
          THEN [typeParameters[i] EXCEPT
                  !.bound = intersect(typeParameters[i].bound, typeInstances[i])]
        ELSE [typeParameters[i] EXCEPT !.bound = typeInstances[i]]]]

\* A faulty getPartial that keeps the partial it made and hands it out
\* again.
getPartialMemoized(parent, typeInstances) ==
  IF partial # NoPartial THEN partial
  ELSE BindTypeInstances(NewPartial(parent), typeInstances)

getPartial(parent, typeInstances) ==
  BindTypeInstances(NewPartial(parent), typeInstances)

(***************************************************************************)
(* Inputs.                                                                 *)
(***************************************************************************)
\* Names of type parameters, by position.
Id(i) == <<"T", "U", "V", "W", "X">>[i]

\* Bounds a type parameter may be declared with, besides a reference to an
\* earlier type parameter.
PlainBounds ==
  {None, AnyType, ExistentialType, NumberType,
   UnionType(<<NumberType, StringType>>)}

\* The bounds parameter i may be constructed with: a plain descriptor, or a
\* FlowIntoType of, or a reference to, the parameter declared before it.
BoundsAt(plain, i) ==
  plain \cup (IF i > 1 THEN {FlowIntoType(i - 1), TypeParameterRef(i - 1)}
              ELSE {})

\* The stores of n freshly constructed type parameters.
FreshStores(plain, n) ==
  {s \in [1..n -> {TypeParameter(Id(i), b) :
                     i \in 1..n,
                     b \in UNION {BoundsAt(plain, j) : j \in 1..n}}] :
     \A i \in 1..n : s[i].id = Id(i) /\ s[i].bound \in BoundsAt(plain, i)}

\* Descriptor objects passed as type instances.
InstancePool == {Obj("NumberType", 1), Obj("StringType", 2)}

\* Bounds a body creator declares: none, an object it shares with its
\* caller (also passed as a type instance), objects of its own.
DeclBounds == {None, Obj("NumberType", 1), Obj("NumberType", 3)}

\* The parameter lists of the modelled functions over n type parameters.
ParamShapes(n) ==
  {<<TypeParameterRef(1), TypeParameterRef(n)>>,
   <<FlowIntoType(1), FlowIntoType(n)>>,
   <<FlowIntoType(n), TypeParameterRef(1)>>}

\* The modelled functions declare one type parameter, or two.
TypeParameterCounts == {1, 2}

\* Body creators: (partial) => [params..., return], declaring n type
\* parameters on the partial.
BodyCreators ==
  UNION {
    {[typeParameters |-> [i \in 1..n |-> [id |-> s[i].id, bound |-> s[i].bound]],
      params |-> ps,
      returnType |-> TypeParameterRef(1)] :
       s \in FreshStores(DeclBounds, n), ps \in ParamShapes(n)} :
    n \in TypeParameterCounts}

\* Sequences of at most MaxInstances type instances.
InstanceLists ==
  UNION {[1..k -> InstancePool] : k \in 0..MaxInstances}

\* Inputs to the accepts / collectErrors of a function type.
FnInputs == {"n1", "f"}

(***************************************************************************)
(* State.                                                                  *)
(*   tps      the store of the stand-alone type parameters                 *)
(*   fn       a ParameterizedFunctionType                                  *)
(*   partial  the partial made by the latest operation on fn, as that      *)
(*            operation left it                                            *)
(*   last     the latest call: operation, arguments, what it returned,     *)
(*            and the state it started from                                *)
(***************************************************************************)
NoPrev ==
  [op |-> "none", target |-> 0, input |-> "-", ret |-> FALSE, fresh |-> FALSE]

NoCall ==
  [op |-> "none", target |-> 0, input |-> "-", args |-> << >>,
   instances |-> << >>, ret |-> FALSE, errors |-> << >>, result |-> None,
   pre |-> << >>, partial0 |-> NoPartial, leftover |-> FALSE,
   prev |-> NoPrev]

\* A first observation: parameter p of the store has no recorded type and
\* its bound is absent, or is an ordinary bound (not any, existential or a
\* FlowIntoType) that accepts v.
IsFirstObservation(store, p, v) ==
  /\ store[p].recorded = None
  /\ \/ store[p].bound = None
     \/ /\ store[p].bound.typeName \notin
             {"AnyType", "ExistentialType", "FlowIntoType"}
        /\ Accepts(store, store[p].bound, v).ret

\* Whether parameter p of the store is unrecorded and bound to any or to
\* the existential type.
IsUnconstrained(store, p) ==
  /\ store[p].recorded = None
  /\ store[p].bound.typeName \in {"AnyType", "ExistentialType"}

\* What the next call remembers of the call before it, when that was an
\* accepts on a parameter without a recorded type whose bound is no
\* FlowIntoType: the parameter, the value and what was returned.
Summary(call) ==
  IF call.op = "accepts" /\ call.target # 0
     /\ (IsFirstObservation(call.pre, call.target, call.input)
         \/ IsUnconstrained(call.pre, call.target))
    THEN [op |-> call.op, target |-> call.target, input |-> call.input,
          ret |-> call.ret,
          fresh |-> IsFirstObservation(call.pre, call.target, call.input)]
    ELSE NoPrev

DefaultFn ==
  ParameterizedFunctionType(
    [typeParameters |-> << [id |-> "T", bound |-> None] >>,
     params |-> <<FlowIntoType(1), FlowIntoType(1)>>,
     returnType |-> TypeParameterRef(1)])

\* No program is being converted, no predicate is registered and no page is
\* open.
NothingToConvert ==
  /\ program = None
  /\ context = None
  /\ emitted = None
  /\ predicates = None
  /\ compiler = None

Init ==
  /\ NothingToConvert
  /\ tps \in FreshStores(PlainBounds, NumParams)
  /\ fn = DefaultFn
  /\ partial = NoPartial
  /\ last = NoCall

\* p.accepts(v) on a stand-alone type parameter
TypeParameterAccepts(p, v) ==
  LET r == TPAccepts(tps, p, v) IN
  /\ tps' = r.store
  /\ last' = [NoCall EXCEPT !.op = "accepts", !.target = p, !.input = v,
                            !.ret = r.ret, !.pre = tps,
                            !.prev = Summary(last)]
  /\ UNCHANGED <<fn, partial>>
  /\ UNCHANGED convVars

\* p.collectErrors(new Validation, [], v) on a stand-alone type parameter
TypeParameterCollectErrors(p, v) ==
  LET r == TPCollectErrors(tps, << >>, << >>, p, v) IN
  /\ tps' = r.store
  /\ last' = [NoCall EXCEPT !.op = "collectErrors", !.target = p, !.input = v,
                            !.ret = r.ret, !.errors = r.errors, !.pre = tps,
                            !.prev = Summary(last)]
  /\ UNCHANGED <<fn, partial>>
  /\ UNCHANGED convVars

\* p.unwrap() on a stand-alone type parameter
TypeParameterUnwrap(p) ==
  /\ last' = [NoCall EXCEPT !.op = "unwrap", !.target = p,
                            !.result = TPUnwrap(tps, p), !.pre = tps,
                            !.prev = Summary(last)]
  /\ UNCHANGED <<tps, fn, partial>>
  /\ UNCHANGED convVars

Next ==
  \/ \E p \in 1..NumParams, v \in Values : TypeParameterAccepts(p, v)
  \/ \E p \in 1..NumParams, v \in Values : TypeParameterCollectErrors(p, v)
  \/ \E p \in 1..NumParams : TypeParameterUnwrap(p)

Spec == Init /\ [][Next]_vars

\* Descriptors passed to acceptsType of a stand-alone type parameter: plain
\* descriptors and the type parameters themselves.
AcceptsTypeInputs ==
  {NumberType, StringType, UnionType(<<NumberType, StringType>>)}
    \cup {TypeParameterRef(q) : q \in 1..NumParams}

\* p.acceptsType(t) on a stand-alone type parameter
TypeParameterAcceptsType(p, t) ==
  LET r == TPAcceptsType(tps, p, t) IN
  /\ tps' = r.store
  /\ last' = [NoCall EXCEPT !.op = "acceptsType", !.target = p,
                            !.result = t, !.ret = r.ret, !.pre = tps,
                            !.prev = Summary(last)]
  /\ UNCHANGED <<fn, partial>>
  /\ UNCHANGED convVars

\* The stand-alone type parameters, asked about values and about types.
NextAcceptsType ==
  \/ \E p \in 1..NumParams, v \in Values : TypeParameterAccepts(p, v)
  \/ \E p \in 1..NumParams, t \in AcceptsTypeInputs :
       TypeParameterAcceptsType(p, t)

SpecAcceptsType == Init /\ [][NextAcceptsType]_vars

(***************************************************************************)
(* Operations of ParameterizedFunctionType.  Each one obtains a partial    *)
(* from getPartial and delegates to it or to its function type.            *)
(***************************************************************************)
\* Whether some type parameter of a partial has a recorded type.
HasRecorded(part) ==
  \E i \in 1..Len(part.typeParameters) : part.typeParameters[i].recorded # None

\* The record of a call on fn that started from the partial p0.
FnCall(op, instances, p0) ==
  [NoCall EXCEPT !.op = op, !.instances = instances, !.partial0 = p0,
                 !.leftover = HasRecorded(partial)]

(***************************************************************************)
(* What a PartialType and its FunctionType do when delegated to.  Each     *)
(* result carries the returned flag (for the assert operations: TRUE when  *)
(* the value is returned, FALSE when a failure is thrown), the records of  *)
(* the validation and the partial's type parameters after the call.        *)
(***************************************************************************)
Outcome(ret, errors, store) ==
  [ret |-> ret, errors |-> errors, store |-> store]

\* partial.accepts(input): input is callable.
PartialAccepts(part, input) ==
  Outcome(PrimAccepts(part.type, input), << >>, part.typeParameters)

\* partial.collectErrors(validation, [], input)
PartialCollectErrors(part, input) ==
  IF PrimAccepts(part.type, input)
    THEN Outcome(FALSE, << >>, part.typeParameters)
    ELSE Outcome(TRUE, << ErrorRecord(<< >>, part.type, input) >>,
                 part.typeParameters)

\* partial.acceptsType(input), for an input that may be no function type.
PartialAcceptsType(part, input) ==
  Outcome(input.typeName \in {"FunctionType", "ParameterizedFunctionType"},
          << >>, part.typeParameters)

\* partial.type.acceptsParams(...args)
PartialAcceptsParams(part, args) ==
  LET r == AcceptsParamsFrom(part.typeParameters, part.type.params, args, 1)
  IN Outcome(r.ret, << >>, r.store)

\* partial.type.acceptsReturn(input)
PartialAcceptsReturn(part, input) ==
  LET r == Accepts(part.typeParameters, part.type.returnType, input)
  IN Outcome(r.ret, << >>, r.store)

\* partial.type.assertParams(...args)
PartialAssertParams(part, args) ==
  LET r == CollectParamsFrom(part.typeParameters, << >>, part.type.params,
                             args, 1)
  IN Outcome(r.errors = << >>, r.errors, r.store)

\* partial.type.assertReturn(input)
PartialAssertReturn(part, input) ==
  LET r == CollectErrors(part.typeParameters, << >>, <<"return">>,
                         part.type.returnType, input)
  IN Outcome(r.errors = << >>, r.errors, r.store)

\* partial.unwrap(): the function type, which unwraps to itself.
PartialUnwrap(part) == UnwrapType(part.typeParameters, part.type)

\* What a getter of ParameterizedFunctionType reads off the partial.
PartialField(part, field) ==
  CASE field = "typeParameters" ->
         [typeName |-> "Array", items |-> part.typeParameters]
    [] field = "params" -> [typeName |-> "Array", items |-> part.type.params]
    [] field = "returnType" -> part.type.returnType
    [] OTHER -> None

\* The record of a call on fn that got the partial p0 and the outcome r.
FnReturn(op, input, args, typeInstances, p0, r) ==
  [FnCall(op, typeInstances, p0) EXCEPT
     !.input = input, !.args = args, !.ret = r.ret, !.errors = r.errors]

\* The partial p0 as a call with outcome r leaves it.
Retained(p0, r) == [p0 EXCEPT !.typeParameters = r.store]

InitFn ==
  /\ NothingToConvert
  /\ tps = << >>
  /\ fn \in {ParameterizedFunctionType(b) : b \in BodyCreators}
  /\ partial = NoPartial
  /\ last = NoCall

\* fn.accepts(input, ...typeInstances)
FnAccepts(input, typeInstances) ==
  LET p0 == getPartial(fn, typeInstances)
      r == PartialAccepts(p0, input)
  IN
  /\ partial' = Retained(p0, r)
  /\ last' = FnReturn("accepts", input, << >>, typeInstances, p0, r)
  /\ UNCHANGED <<tps, fn>>
  /\ UNCHANGED convVars

\* fn.collectErrors(new Validation, [], input, ...typeInstances)
FnCollectErrors(input, typeInstances) ==
  LET p0 == getPartial(fn, typeInstances)
      r == PartialCollectErrors(p0, input)
  IN
  /\ partial' = Retained(p0, r)
  /\ last' = FnReturn("collectErrors", input, << >>, typeInstances, p0, r)
  /\ UNCHANGED <<tps, fn>>
  /\ UNCHANGED convVars

\* fn.acceptsType(input)
FnAcceptsType(input) ==
  LET p0 == getPartial(fn, << >>) IN
  /\ partial' = p0
  /\ last' = [FnCall("acceptsType", << >>, p0) EXCEPT
                !.result = input, !.ret = PartialAcceptsType(p0, input).ret]
  /\ UNCHANGED <<tps, fn>>
  /\ UNCHANGED convVars

\* fn.acceptsParams(...args)
FnAcceptsParams(args) ==
  LET p0 == getPartial(fn, << >>)
      r == PartialAcceptsParams(p0, args)
  IN
  /\ partial' = Retained(p0, r)
  /\ last' = FnReturn("acceptsParams", "-", args, << >>, p0, r)
  /\ UNCHANGED <<tps, fn>>
  /\ UNCHANGED convVars

\* fn.acceptsReturn(input)
FnAcceptsReturn(input) ==
  LET p0 == getPartial(fn, << >>)
      r == PartialAcceptsReturn(p0, input)
  IN
  /\ partial' = Retained(p0, r)
  /\ last' = FnReturn("acceptsReturn", input, << >>, << >>, p0, r)
  /\ UNCHANGED <<tps, fn>>
  /\ UNCHANGED convVars

\* fn.assertParams(...args)
FnAssertParams(args) ==
  LET p0 == getPartial(fn, << >>)
      r == PartialAssertParams(p0, args)
  IN
  /\ partial' = Retained(p0, r)
  /\ last' = FnReturn("assertParams", "-", args, << >>, p0, r)
  /\ UNCHANGED <<tps, fn>>
  /\ UNCHANGED convVars

\* fn.assertReturn(input)
FnAssertReturn(input) ==
  LET p0 == getPartial(fn, << >>)
      r == PartialAssertReturn(p0, input)
  IN
  /\ partial' = Retained(p0, r)
  /\ last' = FnReturn("assertReturn", input, << >>, << >>, p0, r)
  /\ UNCHANGED <<tps, fn>>
  /\ UNCHANGED convVars

\* fn.unwrap(...typeInstances)
FnUnwrap(typeInstances) ==
  LET p0 == getPartial(fn, typeInstances) IN
  /\ partial' = p0
  /\ last' = [FnCall("unwrap", typeInstances, p0) EXCEPT
                !.result = PartialUnwrap(p0)]
  /\ UNCHANGED <<tps, fn>>
  /\ UNCHANGED convVars

\* The getters typeParameters, params, rest and returnType.
FnGet(field) ==
  LET p0 == getPartial(fn, << >>) IN
  /\ partial' = p0
  /\ last' = [FnCall(field, << >>, p0) EXCEPT
                !.result = PartialField(p0, field)]
  /\ UNCHANGED <<tps, fn>>
  /\ UNCHANGED convVars

\* unwrap() of type parameter i of the partial a getter handed out.
PartialTypeParameterUnwrap(i) ==
  /\ i \in DOMAIN partial.typeParameters
  /\ last' = [NoCall EXCEPT !.op = "typeParameter.unwrap", !.target = i,
                            !.result = TPUnwrap(partial.typeParameters, i),
                            !.pre = partial.typeParameters,
                            !.partial0 = last.partial0]
  /\ UNCHANGED <<tps, fn, partial>>
  /\ UNCHANGED convVars

\* partial.toJSON()
PartialToJSON(part) ==
  [typeName |-> "PartialType",
   typeParameters |-> [i \in DOMAIN part.typeParameters |->
                         TPToJSON(part.typeParameters, i)],
   type |-> part.type]

\* fn.toString()
FnToString ==
  LET p0 == getPartial(fn, << >>)
      type == p0.type
      typeParameters == p0.typeParameters
      items == [i \in DOMAIN typeParameters |->
                  TPToString(typeParameters, i, TRUE)]
  IN
  /\ partial' = p0
  /\ last' = [FnCall("toString", << >>, p0) EXCEPT
                !.result =
                  IF Len(typeParameters) = 0
                    THEN [typeName |-> "String", items |-> << >>,
                          type |-> ToStringType(typeParameters, type)]
                    ELSE [typeName |-> "String", items |-> items,
                          type |-> ToStringType(typeParameters, type)]]
  /\ UNCHANGED <<tps, fn>>
  /\ UNCHANGED convVars

\* fn.toJSON()
FnToJSON ==
  LET p0 == getPartial(fn, << >>) IN
  /\ partial' = p0
  /\ last' = [FnCall("toJSON", << >>, p0) EXCEPT !.result = PartialToJSON(p0)]
  /\ UNCHANGED <<tps, fn>>
  /\ UNCHANGED convVars

\* Descriptors passed to acceptsType of a type parameter.
TypeInputs == {NumberType, TypeParameterRef(1)}

\* acceptsType(t) of type parameter i of the partial a getter handed out.
PartialTypeParameterAcceptsType(i, t) ==
  /\ i \in DOMAIN partial.typeParameters
  /\ LET r == TPAcceptsType(partial.typeParameters, i, t) IN
     /\ partial' = [partial EXCEPT !.typeParameters = r.store]
     /\ last' = [NoCall EXCEPT !.op = "typeParameter.acceptsType",
                               !.target = i, !.result = t, !.ret = r.ret,
                               !.pre = partial.typeParameters,
                               !.partial0 = last.partial0]
  /\ UNCHANGED <<tps, fn>>
  /\ UNCHANGED convVars

\* toString(withBinding) of type parameter i of that partial.
PartialTypeParameterToString(i, withBinding) ==
  /\ i \in DOMAIN partial.typeParameters
  /\ last' = [NoCall EXCEPT !.op = "typeParameter.toString", !.target = i,
                            !.ret = withBinding,
                            !.result =
                              [typeName |-> "String",
                               items |-> TPToString(partial.typeParameters,
                                                    i, withBinding)],
                            !.pre = partial.typeParameters,
                            !.partial0 = last.partial0]
  /\ UNCHANGED <<tps, fn, partial>>
  /\ UNCHANGED convVars

\* toJSON() of type parameter i of that partial.
PartialTypeParameterToJSON(i) ==
  /\ i \in DOMAIN partial.typeParameters
  /\ last' = [NoCall EXCEPT !.op = "typeParameter.toJSON", !.target = i,
                            !.result = TPToJSON(partial.typeParameters, i),
                            !.pre = partial.typeParameters,
                            !.partial0 = last.partial0]
  /\ UNCHANGED <<tps, fn, partial>>
  /\ UNCHANGED convVars

\* The argument lists of a call of fn: one value per declared parameter.
ArgLists == [1..Len(DefaultFn.bodyCreator.params) -> Values]

NextFn ==
  \/ \E v \in FnInputs, ti \in InstanceLists : FnAccepts(v, ti)
  \/ \E v \in FnInputs, ti \in InstanceLists : FnCollectErrors(v, ti)
  \/ \E t \in {NumberType, StringType} : FnAcceptsType(t)
  \/ \E args \in ArgLists : FnAcceptsParams(args)
  \/ \E v \in Values : FnAcceptsReturn(v)
  \/ \E args \in ArgLists : FnAssertParams(args)
  \/ \E v \in Values : FnAssertReturn(v)
  \/ \E ti \in InstanceLists : FnUnwrap(ti)
  \/ \E f \in {"typeParameters", "params", "rest", "returnType"} : FnGet(f)
  \/ \E i \in TypeParameterCounts : PartialTypeParameterUnwrap(i)
  \/ FnToString
  \/ FnToJSON
  \/ \E i \in TypeParameterCounts, t \in TypeInputs :
       PartialTypeParameterAcceptsType(i, t)
  \/ \E i \in TypeParameterCounts, wb \in BOOLEAN :
       PartialTypeParameterToString(i, wb)
  \/ \E i \in TypeParameterCounts : PartialTypeParameterToJSON(i)

SpecFn == InitFn /\ [][NextFn]_vars

(***************************************************************************)
(* The annotation converter.  A program is a tree of nodes; a node is a    *)
(* record of its type, its name (of an identifier, a type parameter, a     *)
(* property), its kind, its flags and its children by field.  A path is    *)
(* the sequence of steps from the root of the program down to a node.      *)
(***************************************************************************)
Node(type, name, flags, kids) ==
  [type |-> type, name |-> name, flags |-> flags, kids |-> kids]

\* The children of node n in the field key (none when the field is absent).
Kids(n, key) == IF key \in DOMAIN n.kids THEN n.kids[key] ELSE << >>

\* One step of a path: the node, and where it sits in its parent.
Step(node, key, listKey, index) ==
  [node |-> node, key |-> key, listKey |-> listKey, index |-> index]

\* The path of the root of a program.
RootPath(root) == << Step(root, "program", "", 0) >>

\* path.node
NodeOf(path) == path[Len(path)].node

\* path.type
TypeOf(path) == NodeOf(path).type

\* path.parentPath: the empty sequence stands for null.
ParentPath(path) == SubSeq(path, 1, Len(path) - 1)

\* path.has(key)
Has(path, key) == Kids(NodeOf(path), key) # << >>

\* path.get(key), for a field holding one node.
Get(path, key) == Append(path, Step(Kids(NodeOf(path), key)[1], key, "", 0))

\* path.get(key), for a field holding a list of nodes.
GetAll(path, key) ==
  [i \in 1..Len(Kids(NodeOf(path), key)) |->
     Append(path, Step(Kids(NodeOf(path), key)[i], key, key, i - 1))]

\* path.node.loc: the source location of a node, told by where it sits.
Loc(path) == [i \in 1..Len(path) |-> <<path[i].key, path[i].index>>]

\* The loc of a node that convert made and nobody located yet.
NoLoc == << >>

(***************************************************************************)
(* The node types of the parser, by alias.                                 *)
(***************************************************************************)
FlowTypes ==
  {"AnyTypeAnnotation", "ArrayTypeAnnotation", "BooleanTypeAnnotation",
   "DeclareClass", "DeclareFunction", "DeclareTypeAlias", "DeclareVariable",
   "ExistentialTypeParam", "FunctionTypeAnnotation", "FunctionTypeParam",
   "GenericTypeAnnotation", "InterfaceExtends", "InterfaceDeclaration",
   "IntersectionTypeAnnotation", "MixedTypeAnnotation",
   "NullableTypeAnnotation", "NumberTypeAnnotation", "StringTypeAnnotation",
   "TupleTypeAnnotation", "TypeofTypeAnnotation", "TypeAlias",
   "TypeAnnotation", "TypeParameter", "TypeParameterDeclaration",
   "TypeParameterInstantiation", "ObjectTypeAnnotation",
   "ObjectTypeProperty", "QualifiedTypeIdentifier", "UnionTypeAnnotation",
   "VoidTypeAnnotation"}

StatementTypes ==
  {"BlockStatement", "ClassDeclaration", "ExpressionStatement",
   "FunctionDeclaration", "ReturnStatement", "VariableDeclaration",
   "DeclareClass", "DeclareFunction", "DeclareTypeAlias", "DeclareVariable",
   "InterfaceDeclaration", "TypeAlias"}

FunctionTypes ==
  {"FunctionDeclaration", "FunctionExpression", "ArrowFunctionExpression",
   "ObjectMethod", "ClassMethod"}

ClassTypes == {"ClassDeclaration", "ClassExpression"}

\* The tests of a path; each is false of null.
IsFlow(path) == path # << >> /\ TypeOf(path) \in FlowTypes
IsStatement(path) == path # << >> /\ TypeOf(path) \in StatementTypes
IsFunction(path) == path # << >> /\ TypeOf(path) \in FunctionTypes
IsClass(path) == path # << >> /\ TypeOf(path) \in ClassTypes
IsType(path, type) == path # << >> /\ TypeOf(path) = type

\* getTypeParameters(path): the params of the node's typeParameters.
getTypeParameters(path) ==
  IF Has(path, "typeParameters")
    THEN GetAll(Get(path, "typeParameters"), "params")
    ELSE << >>

(***************************************************************************)
(* The nodes convert builds.                                               *)
(***************************************************************************)
Out(type, name, parts) ==
  [type |-> type, name |-> name, parts |-> parts, loc |-> NoLoc]

identifier(name) == Out("Identifier", name, << >>)
stringLiteral(value) == Out("StringLiteral", value, << >>)
booleanLiteral(value) == Out("BooleanLiteral", IF value THEN "true" ELSE "false", << >>)
thisExpression == Out("ThisExpression", "", << >>)
memberExpression(object, property) ==
  Out("MemberExpression", "", <<object, property>>)
computedMemberExpression(object, property) ==
  Out("MemberExpression", "computed", <<object, property>>)
callExpression(callee, arguments) ==
  Out("CallExpression", "", <<callee>> \o arguments)
arrowFunctionExpression(params, body) ==
  Out("ArrowFunctionExpression", "", <<Out("Params", "", params), body>>)
blockStatement(body) == Out("BlockStatement", "", body)
returnStatement(argument) == Out("ReturnStatement", "", <<argument>>)
arrayExpression(elements) == Out("ArrayExpression", "", elements)
variableDeclarator(id, init) == Out("VariableDeclarator", "", <<id, init>>)
variableDeclaration(kind, declarations) ==
  Out("VariableDeclaration", kind, declarations)

(***************************************************************************)
(* The ConversionContext.                                                  *)
(***************************************************************************)
libraryId == "t"

\* context.call(name, ...args)
Call(name, args) ==
  callExpression(memberExpression(identifier(libraryId), identifier(name)),
                 args)

\* Whether a built node is the call context.call(name, ...).
IsCall(out, name) ==
  /\ out.type = "CallExpression"
  /\ out.parts[1] = memberExpression(identifier(libraryId), identifier(name))

\* The arguments of a call.
ArgumentsOf(out) == SubSeq(out.parts, 2, Len(out.parts))

\* context.symbol(name)
symbol(name) == memberExpression(identifier(libraryId), identifier(name))

ConversionContext(entities, isAnnotating, suppressed, boxed, uid, symbolUid) ==
  [entities |-> entities, isAnnotating |-> isAnnotating,
   suppressTypeNames |-> suppressed, boxed |-> boxed,
   typeParametersUid |-> uid, typeParametersSymbolUid |-> symbolUid]

\* context.getEntity(name, path): the kind of the entity, "none" when the
\* name resolves to nothing.
getEntity(ctx, name) ==
  IF name \in DOMAIN ctx.entities THEN ctx.entities[name] ELSE "none"

\* context.shouldSuppressTypeName(name)
shouldSuppressTypeName(ctx, name) == name \in ctx.suppressTypeNames

\* context.isBoxed(id.node)
isBoxed(ctx, name) == name \in ctx.boxed

(***************************************************************************)
(* The helpers of convert.                                                 *)
(***************************************************************************)
\* The order in which the fields of a node are visited.
VisitorKeys ==
  <<"id", "qualification", "typeParameters", "superClass",
    "superTypeParameters", "extends", "params", "rest", "returnType",
    "typeAnnotation", "bound", "default", "left", "right", "declarations",
    "expression", "types", "elementType", "callProperties", "properties",
    "indexers", "key", "value", "argument", "body">>

\* typeAnnotationIterator(annotation): every path of the annotation's tree,
\* parents first.
RECURSIVE typeAnnotationIterator(_)
RECURSIVE IterateList(_, _)
RECURSIVE IterateKeys(_, _)
IterateList(paths, i) ==
  IF i > Len(paths) THEN << >>
  ELSE typeAnnotationIterator(paths[i]) \o IterateList(paths, i + 1)

\* The fields that hold a list of nodes.
IsListKey(node, key) ==
  \/ key \in {"params", "extends", "types", "declarations", "callProperties",
              "properties", "indexers"}
  \/ key = "body" /\ node.type \in {"Program", "ClassBody", "BlockStatement"}

\* The paths of the children of a node in one field.
ChildPaths(path, key) ==
  IF IsListKey(NodeOf(path), key) THEN GetAll(path, key)
  ELSE IF Has(path, key) THEN <<Get(path, key)>>
  ELSE << >>

\* The fields a node has, in the order they are visited.
KeysOf(node) == SelectSeq(VisitorKeys, LAMBDA key : key \in DOMAIN node.kids)

IterateKeys(path, k) ==
  IF k > Len(KeysOf(NodeOf(path))) THEN << >>
  ELSE IterateList(ChildPaths(path, KeysOf(NodeOf(path))[k]), 1)
         \o IterateKeys(path, k + 1)

typeAnnotationIterator(annotation) ==
  <<annotation>> \o IterateKeys(annotation, 1)

annotationReferencesId(annotation, name) ==
  \E i \in DOMAIN typeAnnotationIterator(annotation) :
    LET item == typeAnnotationIterator(annotation)[i] IN
    TypeOf(item) = "Identifier" /\ NodeOf(item).name = name

\* The loop of typeParameterCanFlow, from the path subject upwards.
RECURSIVE typeParameterCanFlowFrom(_)
typeParameterCanFlowFrom(subject) ==
  IF subject = << >> THEN FALSE
  ELSE IF IsType(subject, "ClassProperty") THEN TRUE
  ELSE IF IsFlow(subject) THEN typeParameterCanFlowFrom(ParentPath(subject))
  ELSE IF IsStatement(subject) THEN FALSE
  ELSE IF /\ TypeOf(subject) \in {"Identifier", "ArrayPattern", "ObjectPattern"}
          /\ IsFunction(ParentPath(subject))
          /\ subject[Len(subject)].listKey = "params"
    THEN TRUE
  ELSE typeParameterCanFlowFrom(ParentPath(subject))

typeParameterCanFlow(annotation) ==
  typeParameterCanFlowFrom(ParentPath(annotation))

\* The loop of annotationParentHasTypeParameter, from subject upwards.
RECURSIVE annotationParentHasTypeParameterFrom(_, _)
annotationParentHasTypeParameterFrom(subject, name) ==
  IF ~IsFlow(subject) THEN FALSE
  ELSE IF \E i \in DOMAIN getTypeParameters(subject) :
            NodeOf(getTypeParameters(subject)[i]).name = name
    THEN TRUE
  ELSE annotationParentHasTypeParameterFrom(ParentPath(subject), name)

annotationParentHasTypeParameter(annotation, name) ==
  annotationParentHasTypeParameterFrom(ParentPath(annotation), name)

\* subject.findParent(item => item.isClassMethod() [&& kind constructor]):
\* the nearest such ancestor, null when there is none.
RECURSIVE findParentClassMethod(_, _)
findParentClassMethod(subject, constructorOnly) ==
  LET up == ParentPath(subject) IN
  IF up = << >> THEN << >>
  ELSE IF /\ IsType(up, "ClassMethod")
          /\ (constructorOnly => "constructor" \in NodeOf(up).flags)
    THEN up
  ELSE findParentClassMethod(up, constructorOnly)

parentIsStaticMethod(subject) ==
  LET method == findParentClassMethod(subject, FALSE) IN
  IF method = << >> THEN FALSE
  ELSE "static" \in NodeOf(method).flags

RECURSIVE parentIsClassConstructorWithSuper(_)
parentIsClassConstructorWithSuper(subject) ==
  LET method == findParentClassMethod(subject, TRUE) IN
  IF method = << >> THEN FALSE
  ELSE LET classDefinition == ParentPath(ParentPath(method)) IN
       IF Has(classDefinition, "superClass") THEN TRUE
       ELSE parentIsClassConstructorWithSuper(ParentPath(classDefinition))

\* A node of the program used as it is in what convert builds.
located(path) ==
  [Out(TypeOf(path), NodeOf(path).name, << >>) EXCEPT !.loc = Loc(path)]

\* qualifiedToMemberExpression(subject), subject being the node at path.
RECURSIVE qualifiedToMemberExpression(_)
qualifiedToMemberExpression(path) ==
  IF TypeOf(path) = "QualifiedTypeIdentifier"
    THEN memberExpression(
           qualifiedToMemberExpression(Get(path, "qualification")),
           located(Get(path, "id")))
    ELSE located(path)

RECURSIVE getMemberExpressionObject(_)
getMemberExpressionObject(subject) ==
  IF subject.type = "MemberExpression"
    THEN getMemberExpressionObject(subject.parts[1])
    ELSE subject

(***************************************************************************)
(* convert and the converters.  Each returns the node it built beside the  *)
(* warnings it logged, in the order they were logged.                      *)
(***************************************************************************)
Done(node) == [node |-> node, log |-> << >>]

\* The entries of the converters table.
converters ==
  {"DeclareVariable", "DeclareTypeAlias", "DeclareFunction", "DeclareModule",
   "DeclareModuleExports", "InterfaceDeclaration", "InterfaceExtends",
   "DeclareClass", "TypeAlias", "TypeofTypeAnnotation", "TypeParameter",
   "TypeAnnotation", "NullableTypeAnnotation", "NullLiteralTypeAnnotation",
   "AnyTypeAnnotation", "MixedTypeAnnotation", "ExistentialTypeParam",
   "EmptyTypeAnnotation", "NumberTypeAnnotation",
   "NumericLiteralTypeAnnotation", "BooleanTypeAnnotation",
   "BooleanLiteralTypeAnnotation", "StringTypeAnnotation",
   "StringLiteralTypeAnnotation", "VoidTypeAnnotation",
   "UnionTypeAnnotation", "IntersectionTypeAnnotation", "ThisTypeAnnotation",
   "GenericTypeAnnotation", "ArrayTypeAnnotation", "TupleTypeAnnotation",
   "ObjectTypeAnnotation", "ObjectTypeCallProperty", "ObjectTypeProperty",
   "ObjectTypeIndexer", "FunctionTypeAnnotation", "FunctionTypeParam",
   "Function", "Class", "ClassProperty", "ClassMethod", "RestElement",
   "RestProperty", "Identifier", "ArrayPattern", "ObjectPattern",
   "AssignmentPattern"}

\* The converters that only call a factory of the library.
FactoryOf(type) ==
  CASE type = "NullLiteralTypeAnnotation" -> "null"
    [] type = "AnyTypeAnnotation" -> "any"
    [] type = "MixedTypeAnnotation" -> "mixed"
    [] type = "ExistentialTypeParam" -> "existential"
    [] type = "EmptyTypeAnnotation" -> "empty"
    [] type = "NumberTypeAnnotation" -> "number"
    [] type = "BooleanTypeAnnotation" -> "boolean"
    [] type = "StringTypeAnnotation" -> "string"
    [] type = "VoidTypeAnnotation" -> "void"
    [] type = "ThisTypeAnnotation" -> "this"
    [] type = "RestProperty" -> "object"
    [] OTHER -> ""

\* path.scope.generateUid(name)
generateUid(name) ==
  CASE name = "fn" -> "_fn"
    [] name = "X" -> "_X"
    [] OTHER -> "_uid"

RECURSIVE convert(_, _)
RECURSIVE ConvertEach(_, _, _)
RECURSIVE TypeParameterDeclarators(_, _, _, _)
RECURSIVE TypeParameterDeclarations(_, _, _, _)

\* paths.map(item => convert(context, item)), from the i-th path on.
ConvertEach(ctx, paths, i) ==
  IF i > Len(paths) THEN [nodes |-> << >>, log |-> << >>]
  ELSE LET r == convert(ctx, paths[i])
           rest == ConvertEach(ctx, paths, i + 1)
       IN [nodes |-> <<r.node>> \o rest.nodes, log |-> r.log \o rest.log]

\* typeParameters.map(typeParameter => t.variableDeclarator(...)) of the
\* TypeAlias, InterfaceDeclaration, DeclareClass and FunctionTypeAnnotation
\* converters: owner.typeParameter(name, bound?) for each type parameter.
TypeParameterDeclarators(ctx, owner, typeParameters, i) ==
  IF i > Len(typeParameters) THEN [nodes |-> << >>, log |-> << >>]
  ELSE LET typeParameter == typeParameters[i]
           name == NodeOf(typeParameter).name
           bound == IF Has(typeParameter, "bound")
                      THEN convert(ctx, Get(typeParameter, "bound"))
                      ELSE Done(None)
           args == IF Has(typeParameter, "bound")
                     THEN <<stringLiteral(name), bound.node>>
                     ELSE <<stringLiteral(name)>>
           rest == TypeParameterDeclarators(ctx, owner, typeParameters, i + 1)
       IN [nodes |->
             <<variableDeclarator(
                 identifier(name),
                 callExpression(
                   memberExpression(owner, identifier("typeParameter")),
                   args))>> \o rest.nodes,
           log |-> bound.log \o rest.log]

\* The thunk (owner) => { const T = owner.typeParameter("T"), ...; return
\* body } those converters wrap a parameterized body in.
ParameterizedThunk(owner, declarators, returned) ==
  arrowFunctionExpression(
    <<owner>>,
    blockStatement(<<variableDeclaration("const", declarators),
                     returnStatement(returned)>>))

\* The thunk (owner) => { return body } of a self-referencing declaration.
SelfReferenceThunk(owner, returned) ==
  arrowFunctionExpression(<<owner>>, blockStatement(<<returnStatement(returned)>>))

\* const name = t.type("name", body)
TypeDeclaration(name, body) ==
  variableDeclaration(
    "const",
    <<variableDeclarator(identifier(name),
                         Call("type", <<stringLiteral(name), body>>))>>)

InterfaceDeclarationConverter(ctx, path) ==
  LET name == NodeOf(Get(path, "id")).name
      typeParameters == getTypeParameters(path)
      converted == convert(ctx, Get(path, "body"))
      declarators == IF Len(typeParameters) > 0
                       THEN TypeParameterDeclarators(ctx, identifier(name),
                                                     typeParameters, 1)
                       ELSE [nodes |-> << >>, log |-> << >>]
      body == IF Len(typeParameters) > 0
                THEN ParameterizedThunk(identifier(name), declarators.nodes,
                                        converted.node)
              ELSE IF annotationReferencesId(Get(path, "body"), name)
                THEN SelfReferenceThunk(identifier(name), converted.node)
              ELSE converted.node
      extended == IF Has(path, "extends")
                    THEN ConvertEach(ctx, GetAll(path, "extends"), 1)
                    ELSE [nodes |-> << >>, log |-> << >>]
      whole == IF Has(path, "extends")
                 THEN Call("intersect", extended.nodes \o <<body>>)
                 ELSE body
  IN [node |-> TypeDeclaration(name, whole),
      log |-> converted.log \o declarators.log \o extended.log]

\* The name and the subject of a reference: of an InterfaceExtends or of a
\* GenericTypeAnnotation.
ReferenceSubject(id) ==
  IF IsType(id, "QualifiedTypeIdentifier")
    THEN qualifiedToMemberExpression(id)
    ELSE identifier(NodeOf(id).name)

ReferenceName(id) ==
  IF IsType(id, "QualifiedTypeIdentifier")
    THEN getMemberExpressionObject(qualifiedToMemberExpression(id)).name
    ELSE NodeOf(id).name

InterfaceExtendsConverter(ctx, path) ==
  LET id == Get(path, "id")
      method == IF IsType(ParentPath(path), "InterfaceDeclaration")
                  THEN "ref" ELSE "extends"
      name == ReferenceName(id)
      subject == ReferenceSubject(id)
      typeParameters == ConvertEach(ctx, getTypeParameters(path), 1)
      entity == getEntity(ctx, name)
      isDirectlyReferenceable ==
        \/ annotationParentHasTypeParameter(path, name)
        \/ entity \in {"TypeAlias", "TypeParameter"}
      node ==
        IF isDirectlyReferenceable
          THEN IF Len(typeParameters.nodes) > 0
                 THEN Call(method, <<subject>> \o typeParameters.nodes)
                 ELSE subject
        ELSE IF entity = "none"
          THEN Call(method, <<stringLiteral(name)>> \o typeParameters.nodes)
        ELSE Call(method, <<subject>> \o typeParameters.nodes)
  IN [node |-> node, log |-> typeParameters.log]

DeclareClassConverter(ctx, path) ==
  LET name == NodeOf(Get(path, "id")).name
      extra == IF Has(path, "extends")
                 THEN ConvertEach(ctx, GetAll(path, "extends"), 1)
                 ELSE [nodes |-> << >>, log |-> << >>]
      typeParameters == getTypeParameters(path)
      uid == identifier(generateUid(name))
      declarators == IF Len(typeParameters) > 0
                       THEN TypeParameterDeclarators(ctx, uid, typeParameters, 1)
                       ELSE [nodes |-> << >>, log |-> << >>]
      body == convert(ctx, Get(path, "body"))
      node ==
        IF Len(typeParameters) > 0
          THEN Call("declare",
                    <<Call("class",
                           <<stringLiteral(name),
                             ParameterizedThunk(uid, declarators.nodes,
                                                body.node)>>
                             \o extra.nodes)>>)
          ELSE Call("declare",
                    <<Call("class", <<stringLiteral(name), body.node>>
                                      \o extra.nodes)>>)
  IN [node |-> node, log |-> extra.log \o declarators.log \o body.log]

TypeAliasConverter(ctx, path) ==
  LET name == NodeOf(Get(path, "id")).name
      typeParameters == getTypeParameters(path)
      converted == convert(ctx, Get(path, "right"))
      declarators == IF Len(typeParameters) > 0
                       THEN TypeParameterDeclarators(ctx, identifier(name),
                                                     typeParameters, 1)
                       ELSE [nodes |-> << >>, log |-> << >>]
      body == IF Len(typeParameters) > 0
                THEN ParameterizedThunk(identifier(name), declarators.nodes,
                                        converted.node)
              ELSE IF annotationReferencesId(Get(path, "right"), name)
                THEN SelfReferenceThunk(identifier(name), converted.node)
              ELSE converted.node
  IN [node |-> TypeDeclaration(name, body),
      log |-> converted.log \o declarators.log]

TypeParameterConverter(ctx, path) ==
  IF Has(path, "bound")
    THEN LET bound == convert(ctx, Get(path, "bound")) IN
         [node |-> Call("typeParameter",
                        <<stringLiteral(NodeOf(path).name), bound.node>>),
          log |-> bound.log]
    ELSE Done(Call("typeParameter", <<stringLiteral(NodeOf(path).name)>>))

\* The converters of an annotation around one other annotation.
WrappingConverter(ctx, path, factory, key) ==
  LET inner == convert(ctx, Get(path, key)) IN
  [node |-> Call(factory, <<inner.node>>), log |-> inner.log]

\* The converters of an annotation over a list of annotations.
ListConverter(ctx, path, factory, key) ==
  LET types == ConvertEach(ctx, GetAll(path, key), 1) IN
  [node |-> Call(factory, types.nodes), log |-> types.log]

\* The target of a class type parameter, were the symbol uid to be looked
\* at before the static method and the constructor.
ClassTypeParameterTargetSymbolFirst(ctx, path, subject) ==
  IF ctx.typeParametersSymbolUid # ""
    THEN memberExpression(
           computedMemberExpression(thisExpression,
                                    identifier(ctx.typeParametersSymbolUid)),
           subject)
  ELSE IF /\ ctx.typeParametersUid # ""
          /\ (parentIsStaticMethod(path)
                \/ parentIsClassConstructorWithSuper(path))
    THEN memberExpression(identifier(ctx.typeParametersUid), subject)
  ELSE memberExpression(
         computedMemberExpression(
           thisExpression,
           computedMemberExpression(thisExpression, symbol("TypeParameters"))),
         subject)

\* The target a reference to a class type parameter is read from.
ClassTypeParameterTarget(ctx, path, subject) ==
  LET typeParametersUid == ctx.typeParametersUid
      typeParametersSymbolUid == ctx.typeParametersSymbolUid
  IN
  IF typeParametersUid # "" /\ parentIsStaticMethod(path)
    THEN memberExpression(identifier(typeParametersUid), subject)
  ELSE IF typeParametersUid # "" /\ parentIsClassConstructorWithSuper(path)
    THEN memberExpression(identifier(typeParametersUid), subject)
  ELSE IF typeParametersSymbolUid # ""
    THEN memberExpression(
           computedMemberExpression(thisExpression,
                                    identifier(typeParametersSymbolUid)),
           subject)
  ELSE memberExpression(
         computedMemberExpression(
           thisExpression,
           computedMemberExpression(thisExpression, symbol("TypeParameters"))),
         subject)

\* converters.GenericTypeAnnotation, were it to emit a ref call for every
\* reference that is not suppressed.
GenericTypeAnnotationAlwaysRef(ctx, path) ==
  LET id == Get(path, "id")
      typeParameters == ConvertEach(ctx, getTypeParameters(path), 1)
  IN
  IF shouldSuppressTypeName(ctx, ReferenceName(id)) THEN Done(Call("any", << >>))
  ELSE [node |-> Call("ref", <<ReferenceSubject(id)>> \o typeParameters.nodes),
        log |-> typeParameters.log]

\* converters.GenericTypeAnnotation, were it to wrap the references to a
\* type alias in flowInto as it wraps those to a type parameter.
GenericTypeAnnotationFlowingAliases(ctx, path) ==
  LET id == Get(path, "id")
      name == ReferenceName(id)
      named == ReferenceSubject(id)
      boxed == IF isBoxed(ctx, name)
                 THEN Call("box", <<arrowFunctionExpression(<< >>, named)>>)
                 ELSE named
      typeParameters == ConvertEach(ctx, getTypeParameters(path), 1)
      entity == getEntity(ctx, name)
      isTypeParameter ==
        \/ entity = "TypeParameter"
        \/ (ctx.isAnnotating /\ entity = "ClassTypeParameter")
        \/ annotationParentHasTypeParameter(path, name)
      subject == IF (isTypeParameter \/ entity = "TypeAlias")
                      /\ typeParameterCanFlow(path)
                   THEN Call("flowInto", <<boxed>>)
                   ELSE boxed
      isDirectlyReferenceable == isTypeParameter \/ entity = "TypeAlias"
      found == ClassTypeParameterTarget(ctx, path, subject)
      target == IF typeParameterCanFlow(path)
                  THEN Call("flowInto", <<found>>)
                  ELSE found
  IN
  IF shouldSuppressTypeName(ctx, name) THEN Done(Call("any", << >>))
  ELSE
    [log |-> typeParameters.log,
     node |->
       IF isDirectlyReferenceable
         THEN IF Len(typeParameters.nodes) > 0
                THEN Call("ref", <<subject>> \o typeParameters.nodes)
                ELSE subject
       ELSE IF entity = "none"
         THEN Call("ref", <<stringLiteral(name)>> \o typeParameters.nodes)
       ELSE IF entity = "ClassTypeParameter"
         THEN IF Len(typeParameters.nodes) > 0
                THEN Call("ref", <<target>> \o typeParameters.nodes)
                ELSE target
       ELSE IF name = "Array"
         THEN Call("array", typeParameters.nodes)
       ELSE Call("ref", <<subject>> \o typeParameters.nodes)]

GenericTypeAnnotationConverter(ctx, path) ==
  LET id == Get(path, "id")
      name == ReferenceName(id)
      named == ReferenceSubject(id)
      boxed == IF isBoxed(ctx, name)
                 THEN Call("box", <<arrowFunctionExpression(<< >>, named)>>)
                 ELSE named
      typeParameters == ConvertEach(ctx, getTypeParameters(path), 1)
      entity == getEntity(ctx, name)
      isTypeParameter ==
        \/ entity = "TypeParameter"
        \/ (ctx.isAnnotating /\ entity = "ClassTypeParameter")
        \/ annotationParentHasTypeParameter(path, name)
      subject == IF isTypeParameter /\ typeParameterCanFlow(path)
                   THEN Call("flowInto", <<boxed>>)
                   ELSE boxed
      isDirectlyReferenceable == isTypeParameter \/ entity = "TypeAlias"
      found == ClassTypeParameterTarget(ctx, path, subject)
      target == IF typeParameterCanFlow(path)
                  THEN Call("flowInto", <<found>>)
                  ELSE found
  IN
  IF shouldSuppressTypeName(ctx, name) THEN Done(Call("any", << >>))
  ELSE
    [log |-> typeParameters.log,
     node |->
       IF isDirectlyReferenceable
         THEN IF Len(typeParameters.nodes) > 0
                THEN Call("ref", <<subject>> \o typeParameters.nodes)
                ELSE subject
       ELSE IF entity = "none"
         THEN Call("ref", <<stringLiteral(name)>> \o typeParameters.nodes)
       ELSE IF entity = "ClassTypeParameter"
         THEN IF Len(typeParameters.nodes) > 0
                THEN Call("ref", <<target>> \o typeParameters.nodes)
                ELSE target
       ELSE IF name = "Array"
         THEN Call("array", typeParameters.nodes)
       ELSE Call("ref", <<subject>> \o typeParameters.nodes)]

ObjectTypeAnnotationConverter(ctx, path) ==
  LET body == GetAll(path, "callProperties") \o GetAll(path, "properties")
                \o GetAll(path, "indexers")
      members == ConvertEach(ctx, body, 1)
  IN [node |-> Call(IF "exact" \in NodeOf(path).flags
                      THEN "exactObject" ELSE "object", members.nodes),
      log |-> members.log]

\* The key of the property is kept as the name of the node.
ObjectTypePropertyConverter(ctx, path) ==
  LET propName == stringLiteral(NodeOf(path).name)
      value == convert(ctx, Get(path, "value"))
  IN [node |-> IF "optional" \in NodeOf(path).flags
                 THEN Call("property",
                           <<propName, value.node, booleanLiteral(TRUE)>>)
                 ELSE Call("property", <<propName, value.node>>),
      log |-> value.log]

FunctionTypeAnnotationConverter(ctx, path) ==
  LET params == ConvertEach(ctx, GetAll(path, "params"), 1)
      rest == IF Has(path, "rest")
                THEN ConvertEach(ctx, <<Get(path, "rest")>>, 1)
                ELSE [nodes |-> << >>, log |-> << >>]
      returned == IF Has(path, "returnType")
                    THEN convert(ctx, Get(path, "returnType"))
                    ELSE Done(None)
      body == params.nodes \o rest.nodes
                \o (IF Has(path, "returnType")
                      THEN <<Call("return", <<returned.node>>)>>
                      ELSE << >>)
      typeParameters == getTypeParameters(path)
      name == generateUid("fn")
      declarators == IF Len(typeParameters) > 0
                       THEN TypeParameterDeclarators(ctx, identifier(name),
                                                     typeParameters, 1)
                       ELSE [nodes |-> << >>, log |-> << >>]
  IN [node |-> IF Len(typeParameters) > 0
                 THEN Call("function",
                           <<ParameterizedThunk(identifier(name),
                                                declarators.nodes,
                                                arrayExpression(body))>>)
                 ELSE Call("function", body),
      log |-> params.log \o rest.log \o returned.log \o declarators.log]

\* The name of the parameter is kept as the name of the node.
FunctionTypeParamConverter(ctx, path) ==
  LET annotation == convert(ctx, Get(path, "typeAnnotation"))
      args == <<stringLiteral(NodeOf(path).name), annotation.node>>
                \o (IF "optional" \in NodeOf(path).flags
                      THEN <<booleanLiteral(TRUE)>> ELSE << >>)
  IN [node |-> IF path[Len(path)].key = "rest"
                 THEN Call("rest", args) ELSE Call("param", args),
      log |-> annotation.log]

\* `_arg${argumentIndex === 0 ? '' : argumentIndex}` of converters.Function.
FunctionArgumentName(argumentIndex) ==
  CASE argumentIndex = 0 -> "_arg"
    [] argumentIndex = 1 -> "_arg1"
    [] argumentIndex = 2 -> "_arg2"
    [] OTHER -> "_argN"

\* `_arg${param.key}` of converters.ClassMethod.
MethodArgumentName(key) ==
  CASE key = 0 -> "_arg0"
    [] key = 1 -> "_arg1"
    [] key = 2 -> "_arg2"
    [] OTHER -> "_argN"

\* The loop over the params of converters.Function, from the i-th on.  The
\* argument of a rest element is kept as the name of the RestElement node.
RECURSIVE FunctionInvocations(_, _, _)
FunctionInvocations(ctx, params, i) ==
  IF i > Len(params) THEN [nodes |-> << >>, log |-> << >>]
  ELSE
    LET argumentIndex == params[i][Len(params[i])].index
        param == IF IsType(params[i], "AssignmentPattern")
                   THEN Get(params[i], "left") ELSE params[i]
        argumentName ==
          IF IsType(param, "Identifier") \/ IsType(param, "RestElement")
            THEN NodeOf(param).name
            ELSE FunctionArgumentName(argumentIndex)
        annotation == IF Has(param, "typeAnnotation")
                        THEN convert(ctx, Get(param, "typeAnnotation"))
                        ELSE Done(Call("any", << >>))
        invocation ==
          IF ~Has(param, "typeAnnotation")
            THEN Call("param", <<stringLiteral(argumentName), annotation.node>>)
          ELSE IF IsType(param, "RestElement")
            THEN Call("rest", <<stringLiteral(argumentName), annotation.node>>)
          ELSE Call("param", <<stringLiteral(argumentName), annotation.node>>)
        rest == FunctionInvocations(ctx, params, i + 1)
    IN [nodes |-> <<invocation>> \o rest.nodes,
        log |-> annotation.log \o rest.log]

\* The loop over the type parameters of converters.Function and of
\* converters.Class: one const owner.typeParameter(name, bound?, default?)
\* for each, from the i-th on.
TypeParameterDeclarations(ctx, owner, typeParameters, i) ==
  IF i > Len(typeParameters) THEN [nodes |-> << >>, log |-> << >>]
  ELSE
    LET typeParameter == typeParameters[i]
        name == NodeOf(typeParameter).name
        bound == IF Has(typeParameter, "bound")
                   THEN convert(ctx, Get(typeParameter, "bound"))
                   ELSE Done(identifier("undefined"))
        default == IF Has(typeParameter, "default")
                     THEN convert(ctx, Get(typeParameter, "default"))
                     ELSE Done(None)
        args == IF Has(typeParameter, "bound") /\ Has(typeParameter, "default")
                  THEN <<stringLiteral(name), bound.node, default.node>>
                ELSE IF Has(typeParameter, "bound")
                  THEN <<stringLiteral(name), bound.node>>
                ELSE IF Has(typeParameter, "default")
                  THEN <<stringLiteral(name), identifier("undefined"),
                         default.node>>
                ELSE <<stringLiteral(name)>>
        rest == TypeParameterDeclarations(ctx, owner, typeParameters, i + 1)
    IN [nodes |->
          <<variableDeclaration(
              "const",
              <<variableDeclarator(
                  identifier(name),
                  callExpression(
                    memberExpression(owner, identifier("typeParameter")),
                    args))>>)>> \o rest.nodes,
        log |-> bound.log \o default.log \o rest.log]

\* (owner) => { ...declarations; return [...invocations] }
BoxedThunk(owner, declarations, invocations) ==
  arrowFunctionExpression(
    <<owner>>,
    blockStatement(declarations
                     \o <<returnStatement(arrayExpression(invocations))>>))

FunctionConverter(ctx, path) ==
  LET typeParameters == getTypeParameters(path)
      shouldBox == Len(typeParameters) > 0
      params == FunctionInvocations(ctx, GetAll(path, "params"), 1)
      returned == IF Has(path, "returnType")
                    THEN convert(ctx, Get(path, "returnType"))
                    ELSE Done(None)
      invocations == params.nodes
                       \o (IF Has(path, "returnType")
                             THEN <<Call("return", <<returned.node>>)>>
                             ELSE << >>)
      fnId == identifier(generateUid("fn"))
      declarations == IF shouldBox
                        THEN TypeParameterDeclarations(ctx, fnId, typeParameters, 1)
                        ELSE [nodes |-> << >>, log |-> << >>]
  IN [node |-> IF shouldBox
                 THEN Call("function",
                           <<BoxedThunk(fnId, declarations.nodes, invocations)>>)
                 ELSE Call("function", invocations),
      log |-> params.log \o returned.log \o declarations.log]

ClassConverter(ctx, path) ==
  LET typeParameters == getTypeParameters(path)
      name == IF Has(path, "id") THEN NodeOf(Get(path, "id")).name
                                 ELSE "AnonymousClass"
      superTypeParameters ==
        IF Has(path, "superTypeParameters")
          THEN GetAll(Get(path, "superTypeParameters"), "params")
          ELSE << >>
      supers == ConvertEach(ctx, superTypeParameters, 1)
      extended == IF Has(path, "superClass")
                    THEN <<Call("extends",
                                <<located(Get(path, "superClass"))>>
                                  \o supers.nodes)>>
                    ELSE << >>
      children == GetAll(Get(path, "body"), "body")
      members == ConvertEach(ctx, children, 1)
      invocations == extended \o members.nodes
      shouldBox == \/ Len(typeParameters) > 0
                   \/ \E i \in DOMAIN children :
                        annotationReferencesId(children[i], name)
      classId == identifier(name)
      declarations == IF shouldBox
                        THEN TypeParameterDeclarations(ctx, classId,
                                                       typeParameters, 1)
                        ELSE [nodes |-> << >>, log |-> << >>]
  IN [node |-> IF shouldBox
                 THEN Call("class",
                           <<stringLiteral(name),
                             BoxedThunk(classId, declarations.nodes,
                                        invocations)>>)
                 ELSE Call("class", <<stringLiteral(name)>> \o invocations),
      log |-> (IF Has(path, "superClass") THEN supers.log ELSE << >>)
                \o members.log \o declarations.log]

\* union(number(), string(), symbol()): the key type of a computed member.
KeyType ==
  Call("union", <<Call("number", << >>), Call("string", << >>),
                  Call("symbol", << >>)>>)

\* The key of a class member is kept as the name of the node.
ClassPropertyConverter(ctx, path) ==
  LET typeAnnotation == IF Has(path, "typeAnnotation")
                          THEN convert(ctx, Get(path, "typeAnnotation"))
                          ELSE Done(Call("any", << >>))
  IN [node |->
        IF "computed" \in NodeOf(path).flags
          THEN Call("indexer",
                    <<stringLiteral("key"), KeyType, typeAnnotation.node>>)
          ELSE Call(IF "static" \in NodeOf(path).flags
                      THEN "staticProperty" ELSE "property",
                    <<stringLiteral(NodeOf(path).name), typeAnnotation.node>>),
      log |-> typeAnnotation.log]

\* path.get('params').map(...) of converters.ClassMethod, from the i-th on.
RECURSIVE MethodParams(_, _, _)
MethodParams(ctx, params, i) ==
  IF i > Len(params) THEN [nodes |-> << >>, log |-> << >>]
  ELSE
    LET param == params[i]
        converted == convert(ctx, param)
        name == IF IsType(param, "Identifier") THEN NodeOf(param).name
                ELSE IF /\ IsType(param, "AssignmentPattern")
                        /\ IsType(Get(param, "left"), "Identifier")
                  THEN NodeOf(Get(param, "left")).name
                ELSE MethodArgumentName(param[Len(param)].index)
        rest == MethodParams(ctx, params, i + 1)
    IN [nodes |-> <<Call("param", <<stringLiteral(name), converted.node>>)>>
                    \o rest.nodes,
        log |-> converted.log \o rest.log]

ClassMethodConverter(ctx, path) ==
  LET params == MethodParams(ctx, GetAll(path, "params"), 1)
      returned == IF Has(path, "returnType")
                    THEN convert(ctx, Get(path, "returnType"))
                    ELSE Done(None)
      args == params.nodes
                \o (IF Has(path, "returnType")
                      THEN <<Call("return", <<returned.node>>)>>
                      ELSE << >>)
  IN [node |->
        IF "computed" \in NodeOf(path).flags
          THEN Call("indexer",
                    <<stringLiteral("key"), KeyType, Call("function", args)>>)
          ELSE Call(IF "static" \in NodeOf(path).flags
                      THEN "staticMethod" ELSE "method",
                    <<stringLiteral(NodeOf(path).name)>> \o args),
      log |-> params.log \o returned.log]

\* converters.RestElement, Identifier, ArrayPattern and ObjectPattern: the
\* annotation of the node, and missing the one given.
AnnotationOr(ctx, path, missing) ==
  IF ~Has(path, "typeAnnotation") THEN Done(missing)
  ELSE convert(ctx, Get(path, "typeAnnotation"))

nullLiteral == Out("NullLiteral", "", << >>)
numericLiteral(value) == Out("NumericLiteral", value, << >>)
expressionStatement(expression) == Out("ExpressionStatement", "", <<expression>>)

\* annotationToValue(subject), subject being the node at path.  The value of
\* a literal annotation is kept as the name of the node.
RECURSIVE annotationToValue(_)
annotationToValue(path) ==
  CASE TypeOf(path) \in {"NullableTypeAnnotation", "TypeAnnotation"} ->
         annotationToValue(Get(path, "typeAnnotation"))
    [] TypeOf(path) = "GenericTypeAnnotation" ->
         annotationToValue(Get(path, "id"))
    [] TypeOf(path) = "QualifiedTypeIdentifier" ->
         memberExpression(annotationToValue(Get(path, "qualification")),
                          located(Get(path, "id")))
    [] TypeOf(path) = "NullLiteralTypeAnnotation" -> nullLiteral
    [] TypeOf(path) = "VoidTypeAnnotation" -> identifier("undefined")
    [] TypeOf(path) = "BooleanLiteralTypeAnnotation" ->
         booleanLiteral(NodeOf(path).name = "true")
    [] TypeOf(path) = "NumericLiteralTypeAnnotation" ->
         numericLiteral(NodeOf(path).name)
    [] TypeOf(path) = "StringLiteralTypeAnnotation" ->
         stringLiteral(NodeOf(path).name)
    [] OTHER -> located(path)

DeclareVariableConverter(ctx, path) ==
  LET id == Get(path, "id") IN
  IF Has(id, "typeAnnotation")
    THEN LET annotation == convert(ctx, Get(id, "typeAnnotation")) IN
         [node |-> Call("declare",
                        <<Call("var", <<stringLiteral(NodeOf(id).name),
                                        annotation.node>>)>>),
          log |-> annotation.log]
    ELSE Done(Call("declare",
                   <<Call("var", <<stringLiteral(NodeOf(id).name)>>)>>))

DeclareTypeAliasConverter(ctx, path) ==
  LET right == convert(ctx, Get(path, "right")) IN
  [node |-> Call("declare",
                 <<Call("type", <<stringLiteral(NodeOf(Get(path, "id")).name),
                                  right.node>>)>>),
   log |-> right.log]

DeclareFunctionConverter(ctx, path) ==
  LET id == Get(path, "id") IN
  IF Has(id, "typeAnnotation")
    THEN LET annotation == convert(ctx, Get(id, "typeAnnotation")) IN
         [node |-> Call("declare", <<stringLiteral(NodeOf(id).name),
                                     annotation.node>>),
          log |-> annotation.log]
    ELSE Done(Call("declare", <<stringLiteral(NodeOf(id).name)>>))

\* The name of the module is kept as the name of its id, whichever it is.
DeclareModuleConverter(ctx, path) ==
  LET items == ConvertEach(ctx, GetAll(Get(path, "body"), "body"), 1) IN
  [node |->
     Call("declare",
          <<Call("module",
                 <<stringLiteral(NodeOf(Get(path, "id")).name),
                   arrowFunctionExpression(
                     <<identifier(libraryId)>>,
                     blockStatement(
                       [i \in DOMAIN items.nodes |->
                          expressionStatement(items.nodes[i])]))>>)>>),
   log |-> items.log]

ObjectTypeIndexerConverter(ctx, path) ==
  LET key == convert(ctx, Get(path, "key"))
      value == convert(ctx, Get(path, "value"))
  IN [node |-> Call("indexer", <<stringLiteral(NodeOf(path).name),
                                 key.node, value.node>>),
      log |-> key.log \o value.log]

\* converters[path.type](context, path)
Converter(ctx, path) ==
  LET type == TypeOf(path) IN
  CASE type = "DeclareVariable" -> DeclareVariableConverter(ctx, path)
    [] type = "DeclareTypeAlias" -> DeclareTypeAliasConverter(ctx, path)
    [] type = "DeclareFunction" -> DeclareFunctionConverter(ctx, path)
    [] type = "DeclareModule" -> DeclareModuleConverter(ctx, path)
    [] type = "DeclareModuleExports" ->
         WrappingConverter(ctx, path, "moduleExports", "typeAnnotation")
    [] type = "InterfaceDeclaration" -> InterfaceDeclarationConverter(ctx, path)
    [] type = "InterfaceExtends" -> InterfaceExtendsConverter(ctx, path)
    [] type = "DeclareClass" -> DeclareClassConverter(ctx, path)
    [] type = "TypeAlias" -> TypeAliasConverter(ctx, path)
    [] type = "TypeofTypeAnnotation" ->
         Done(Call("typeOf", <<annotationToValue(Get(path, "argument"))>>))
    [] type = "TypeParameter" -> TypeParameterConverter(ctx, path)
    [] type = "TypeAnnotation" -> convert(ctx, Get(path, "typeAnnotation"))
    [] type = "NullableTypeAnnotation" ->
         WrappingConverter(ctx, path, "nullable", "typeAnnotation")
    [] type = "NumericLiteralTypeAnnotation" ->
         Done(Call("number", <<numericLiteral(NodeOf(path).name)>>))
    [] type = "BooleanLiteralTypeAnnotation" ->
         Done(Call("boolean", <<booleanLiteral(NodeOf(path).name = "true")>>))
    [] type = "StringLiteralTypeAnnotation" ->
         Done(Call("string", <<stringLiteral(NodeOf(path).name)>>))
    [] type = "UnionTypeAnnotation" -> ListConverter(ctx, path, "union", "types")
    [] type = "IntersectionTypeAnnotation" ->
         ListConverter(ctx, path, "intersection", "types")
    [] type = "GenericTypeAnnotation" -> GenericTypeAnnotationConverter(ctx, path)
    [] type = "ArrayTypeAnnotation" ->
         WrappingConverter(ctx, path, "array", "elementType")
    [] type = "TupleTypeAnnotation" -> ListConverter(ctx, path, "tuple", "types")
    [] type = "ObjectTypeAnnotation" -> ObjectTypeAnnotationConverter(ctx, path)
    [] type = "ObjectTypeCallProperty" ->
         WrappingConverter(ctx, path, "callProperty", "value")
    [] type = "ObjectTypeProperty" -> ObjectTypePropertyConverter(ctx, path)
    [] type = "ObjectTypeIndexer" -> ObjectTypeIndexerConverter(ctx, path)
    [] type = "FunctionTypeAnnotation" ->
         FunctionTypeAnnotationConverter(ctx, path)
    [] type = "FunctionTypeParam" -> FunctionTypeParamConverter(ctx, path)
    [] type = "Function" -> FunctionConverter(ctx, path)
    [] type = "Class" -> ClassConverter(ctx, path)
    [] type = "ClassProperty" -> ClassPropertyConverter(ctx, path)
    [] type = "ClassMethod" -> ClassMethodConverter(ctx, path)
    [] type = "RestElement" ->
         AnnotationOr(ctx, path, Call("array", <<Call("any", << >>)>>))
    [] type = "Identifier" -> AnnotationOr(ctx, path, Call("any", << >>))
    [] type = "ArrayPattern" ->
         AnnotationOr(ctx, path, Call("array", <<Call("any", << >>)>>))
    [] type = "ObjectPattern" ->
         AnnotationOr(ctx, path, Call("ref", <<identifier("Object")>>))
    [] type = "AssignmentPattern" -> convert(ctx, Get(path, "left"))
    [] OTHER -> Done(Call(FactoryOf(type), << >>))

\* convert, were it to hand back any() for an unsupported node without a
\* warning and without the location of the node.
convertSilently(ctx, path) ==
  IF TypeOf(path) \in converters
    THEN LET result == Converter(ctx, path) IN
         [result EXCEPT !.node.loc = Loc(path)]
  ELSE IF IsClass(path)
    THEN LET result == ClassConverter(ctx, path) IN
         [result EXCEPT !.node.loc = Loc(path)]
  ELSE IF IsFunction(path)
    THEN LET result == FunctionConverter(ctx, path) IN
         [result EXCEPT !.node.loc = Loc(path)]
  ELSE Done(Call("any", << >>))

\* console.warn(`Unsupported node type: ${path.type}, ...`)
Warning(type) == <<"Unsupported node type", type>>

convert(ctx, path) ==
  LET loc == Loc(path) IN
  IF TypeOf(path) \in converters
    THEN LET result == Converter(ctx, path) IN
         [result EXCEPT !.node.loc = loc]
  ELSE IF IsClass(path)
    THEN LET result == ClassConverter(ctx, path) IN
         [result EXCEPT !.node.loc = loc]
  ELSE IF IsFunction(path)
    THEN LET result == FunctionConverter(ctx, path) IN
         [result EXCEPT !.node.loc = loc]
  ELSE [node |-> [Call("any", << >>) EXCEPT !.loc = loc],
        log |-> <<Warning(TypeOf(path))>>]

(***************************************************************************)
(* The programs handed to convert.                                         *)
(***************************************************************************)
NoKids == [key \in {} |-> << >>]

Identifier(name) == Node("Identifier", name, {}, NoKids)

NumberTypeAnnotation == Node("NumberTypeAnnotation", "", {}, NoKids)

\* `: annotation`
TypeAnnotation(annotation) ==
  Node("TypeAnnotation", "", {}, [typeAnnotation |-> <<annotation>>])

\* `name: annotation`, an identifier with its annotation.
Annotated(name, annotation) ==
  Node("Identifier", name, {},
       [typeAnnotation |-> <<TypeAnnotation(annotation)>>])

\* `name`, `name<number>`: a reference to a name.
GenericTypeAnnotation(name, arguments) ==
  Node("GenericTypeAnnotation", "", {},
       IF arguments = << >>
         THEN [id |-> <<Identifier(name)>>]
         ELSE [id |-> <<Identifier(name)>>,
               typeParameters |->
                 <<Node("TypeParameterInstantiation", "", {},
                        [params |-> arguments])>>])

\* `outer.inner`: a reference to a member of a name.
QualifiedTypeAnnotation(outer, inner) ==
  Node("GenericTypeAnnotation", "", {},
       [id |-> <<Node("QualifiedTypeIdentifier", "", {},
                      [qualification |-> <<Identifier(outer)>>,
                       id |-> <<Identifier(inner)>>])>>])

\* `<T>`, `<T: number>`, `<T, U: number>`: declared type parameters.
TypeParameterNode(name, bound) ==
  Node("TypeParameter", name, {},
       IF bound = << >> THEN NoKids ELSE [bound |-> bound])

TypeParameterDeclaration(params) ==
  Node("TypeParameterDeclaration", "", {}, [params |-> params])

\* The references a program is built around.
References ==
  {GenericTypeAnnotation("T", << >>),
   GenericTypeAnnotation("T", <<NumberTypeAnnotation>>),
   QualifiedTypeAnnotation("T", "U"),
   GenericTypeAnnotation("Array", <<NumberTypeAnnotation>>)}

\* The declared type parameters a declaration is given.
Declared ==
  {<< >>,
   <<TypeParameterNode("T", << >>)>>,
   <<TypeParameterNode("T", <<TypeAnnotation(NumberTypeAnnotation)>>),
     TypeParameterNode("U", << >>)>>}

WithTypeParameters(kids, declared) ==
  IF declared = << >> THEN kids
  ELSE [key \in DOMAIN kids \cup {"typeParameters"} |->
          IF key = "typeParameters"
            THEN <<TypeParameterDeclaration(declared)>>
            ELSE kids[key]]

BlockStatement(body) == Node("BlockStatement", "", {}, [body |-> body])

Program(body) == Node("Program", "", {}, [body |-> body])

\* function f<T>(param): returned { }
FunctionDeclaration(declared, params, returned) ==
  Node("FunctionDeclaration", "f", {},
       WithTypeParameters(
         IF returned = << >>
           THEN [id |-> <<Identifier("f")>>, params |-> params,
                 body |-> <<BlockStatement(<< >>)>>]
           ELSE [id |-> <<Identifier("f")>>, params |-> params,
                 returnType |-> <<TypeAnnotation(returned[1])>>,
                 body |-> <<BlockStatement(<< >>)>>],
         declared))

\* The forms of a parameter annotated with a reference.
Params(reference) ==
  {<<Annotated("x", reference)>>,
   <<Identifier("w"),
     Node("ArrayPattern", "", {},
          [typeAnnotation |-> <<TypeAnnotation(reference)>>])>>,
   <<Node("ObjectPattern", "", {},
          [typeAnnotation |-> <<TypeAnnotation(reference)>>])>>,
   <<Node("AssignmentPattern", "", {},
          [left |-> <<Annotated("x", reference)>>,
           right |-> <<Node("NumericLiteral", "1", {}, NoKids)>>])>>,
   <<Node("RestElement", "xs", {},
          [typeAnnotation |-> <<TypeAnnotation(reference)>>])>>}

\* const x: reference;
VariableDeclaration(reference) ==
  Node("VariableDeclaration", "const", {},
       [declarations |->
          <<Node("VariableDeclarator", "", {},
                 [id |-> <<Annotated("x", reference)>>])>>])

\* ((x: reference) => { });
ArrowStatement(reference) ==
  Node("ExpressionStatement", "", {},
       [expression |->
          <<Node("ArrowFunctionExpression", "", {},
                 [params |-> <<Annotated("x", reference)>>,
                  body |-> <<BlockStatement(<< >>)>>])>>])

\* A class member whose key is name.
ClassProperty(name, flags, reference) ==
  Node("ClassProperty", name, flags,
       [typeAnnotation |-> <<TypeAnnotation(reference)>>])

ClassMethod(name, flags, params, body) ==
  Node("ClassMethod", name, flags,
       [params |-> params, body |-> <<BlockStatement(body)>>])

\* class type<T> [extends B] { ...members }
Class(type, superClass, declared, members) ==
  Node(type, "A", {},
       WithTypeParameters(
         IF superClass
           THEN [id |-> <<Identifier("A")>>,
                 superClass |-> <<Identifier("B")>>,
                 body |-> <<Node("ClassBody", "", {}, [body |-> members])>>]
           ELSE [id |-> <<Identifier("A")>>,
                 body |-> <<Node("ClassBody", "", {}, [body |-> members])>>],
         declared))

\* (class [extends B] { constructor (x: reference) { } });
NestedClass(superClass, reference) ==
  Node("ExpressionStatement", "", {},
       [expression |->
          <<Class("ClassExpression", superClass, << >>,
                  <<ClassMethod("constructor", {"constructor"},
                                <<Annotated("x", reference)>>, << >>)>>)>>])

\* The members of a class around a reference.
Members(reference) ==
  {<<ClassProperty("p", {}, reference)>>,
   <<ClassProperty("p", {"static"}, reference)>>,
   <<ClassMethod("m", {}, <<Annotated("x", reference)>>, << >>)>>,
   <<ClassMethod("m", {"static"}, <<Annotated("x", reference)>>, << >>)>>,
   <<ClassMethod("m", {"static"}, << >>, <<VariableDeclaration(reference)>>)>>,
   <<ClassMethod("constructor", {"constructor"},
                 <<Annotated("x", reference)>>, << >>)>>,
   <<ClassMethod("constructor", {"constructor"}, << >>,
                 <<VariableDeclaration(reference)>>)>>,
   <<ClassMethod("constructor", {"constructor"}, << >>,
                 <<NestedClass(FALSE, reference)>>)>>}

\* A member of an object type that the parser read at the offset start.
StartingAt(member, start) ==
  [type |-> member.type, name |-> member.name, flags |-> member.flags,
   kids |-> member.kids, start |-> start]

\* { ...properties }
ObjectTypeAnnotation(properties) ==
  Node("ObjectTypeAnnotation", "", {},
       [callProperties |-> << >>,
        properties |-> [i \in DOMAIN properties |->
                          StartingAt(properties[i], i)],
        indexers |-> << >>])

ObjectTypeProperty(name, value) ==
  Node("ObjectTypeProperty", name, {}, [value |-> <<value>>])

\* type X<T> = right;
TypeAlias(declared, right) ==
  Node("TypeAlias", "X", {},
       WithTypeParameters([id |-> <<Identifier("X")>>, right |-> <<right>>],
                          declared))

InterfaceExtends(name) ==
  Node("InterfaceExtends", "", {}, [id |-> <<Identifier(name)>>])

\* interface X<T> extends ... { ...body }
InterfaceDeclaration(declared, extended, body) ==
  Node("InterfaceDeclaration", "X", {},
       WithTypeParameters(
         IF extended = << >>
           THEN [id |-> <<Identifier("X")>>, body |-> <<body>>]
           ELSE [id |-> <<Identifier("X")>>, extends |-> extended,
                 body |-> <<body>>],
         declared))

\* declare class X<T> extends ... { ...body }
DeclareClass(declared, extended, body) ==
  Node("DeclareClass", "X", {},
       WithTypeParameters(
         IF extended = << >>
           THEN [id |-> <<Identifier("X")>>, body |-> <<body>>]
           ELSE [id |-> <<Identifier("X")>>, extends |-> extended,
                 body |-> <<body>>],
         declared))

\* <T>(a: reference) => reference
FunctionTypeAnnotation(declared, reference) ==
  Node("FunctionTypeAnnotation", "", {},
       WithTypeParameters(
         [params |-> <<Node("FunctionTypeParam", "a", {},
                            [typeAnnotation |-> <<reference>>])>>,
          returnType |-> <<reference>>],
         declared))

\* The bodies of a declaration named X.
Bodies ==
  {ObjectTypeAnnotation(<< >>),
   ObjectTypeAnnotation(<<ObjectTypeProperty("a", GenericTypeAnnotation("T", << >>))>>),
   ObjectTypeAnnotation(<<ObjectTypeProperty("next", GenericTypeAnnotation("X", << >>))>>)}

\* The lists a declaration extends.
Extended ==
  {<< >>, <<InterfaceExtends("T")>>,
   <<InterfaceExtends("Y"), InterfaceExtends("T")>>}

\* The programs around a class: a member holding a reference, in a class
\* with the type parameter T, with and without a superclass.
ClassPrograms ==
  {Program(<<Class("ClassDeclaration", superClass, <<TypeParameterNode("T", << >>)>>,
                   members)>>) :
     superClass \in BOOLEAN,
     members \in UNION {Members(GenericTypeAnnotation("T", arguments)) :
                          arguments \in {<< >>, <<NumberTypeAnnotation>>}}}

\* The programs around a function, a variable or a function type.
FunctionPrograms ==
  {Program(<<FunctionDeclaration(<<TypeParameterNode("T", << >>)>>, params, << >>)>>) :
     params \in UNION {Params(reference) : reference \in References}}
  \cup
  {Program(<<FunctionDeclaration(declared, <<Identifier("x")>>, <<reference>>)>>) :
     declared \in {<< >>, <<TypeParameterNode("T", << >>)>>},
     reference \in References}
  \cup
  {Program(<<statement>>) :
     statement \in UNION {{VariableDeclaration(reference),
                           ArrowStatement(reference),
                           VariableDeclaration(
                             FunctionTypeAnnotation(<<TypeParameterNode("T", << >>)>>,
                                                    reference))} :
                            reference \in References}}

\* The programs around a declaration of a type.
DeclarationPrograms ==
  {Program(<<TypeAlias(declared, right)>>) :
     declared \in Declared, right \in References \cup Bodies}
  \cup
  {Program(<<InterfaceDeclaration(declared, extended, body)>>) :
     declared \in Declared, extended \in Extended, body \in Bodies}
  \cup
  {Program(<<DeclareClass(declared, extended, body)>>) :
     declared \in Declared, extended \in {<< >>, <<InterfaceExtends("T")>>},
     body \in Bodies \ {ObjectTypeAnnotation(<< >>)}}

ObjectTypeCallProperty(value) ==
  Node("ObjectTypeCallProperty", "", {}, [value |-> <<value>>])

\* [name: key]: value
ObjectTypeIndexer(name, key, value) ==
  Node("ObjectTypeIndexer", name, {}, [key |-> <<key>>, value |-> <<value>>])

\* The members an object type is written with: a property, a call property
\* and an indexer.
MemberKinds ==
  {ObjectTypeProperty("a", NumberTypeAnnotation),
   ObjectTypeCallProperty(FunctionTypeAnnotation(<< >>, NumberTypeAnnotation)),
   ObjectTypeIndexer("k", NumberTypeAnnotation, NumberTypeAnnotation)}

\* The lists of members of an object type, in the order they are declared:
\* every list of distinct members.
DeclaredMembers ==
  {members \in UNION {[1..n -> MemberKinds] : n \in 0..Cardinality(MemberKinds)} :
     \A i, j \in DOMAIN members : members[i] = members[j] => i = j}

\* The node the parser makes of { ...declared } or {| ...declared |}: each
\* member keeps its offset and goes to the list of its type.
ParsedObjectType(declared, exact) ==
  LET placed == [i \in DOMAIN declared |-> StartingAt(declared[i], i)]
      Of(type) == SelectSeq(placed, LAMBDA member : member.type = type)
  IN Node("ObjectTypeAnnotation", "", IF exact THEN {"exact"} ELSE {},
          [callProperties |-> Of("ObjectTypeCallProperty"),
           properties |-> Of("ObjectTypeProperty"),
           indexers |-> Of("ObjectTypeIndexer")])

\* The programs around an object type: type X = { ...declared };
ObjectPrograms ==
  {Program(<<TypeAlias(<< >>, ParsedObjectType(declared, exact))>>) :
     declared \in DeclaredMembers, exact \in BOOLEAN}

\* What the names of a program resolve to.
Entities ==
  {[name \in {} |-> ""]} \cup
  {[name \in {"T"} |-> kind] : kind \in {"TypeAlias", "TypeParameter", "Value"}}
  \cup {[name \in {"Array"} |-> kind] : kind \in {"TypeAlias", "Value"}}

\* The contexts of a program without a class type parameter.
PlainContexts ==
  {ConversionContext(entities, FALSE, suppressTypeNames, boxed, "", "") :
     entities \in Entities,
     suppressTypeNames \in {{}, {"T"}}, boxed \in {{}}}
  \cup
  {ConversionContext(entities, isAnnotating, {}, boxed, "", "") :
     entities \in Entities, isAnnotating \in BOOLEAN, boxed \in {{"T"}}}

\* The contexts in which T is a type parameter of a class.
ClassContexts ==
  {ConversionContext([name \in {"T"} |-> "ClassTypeParameter"], isAnnotating,
                     suppressTypeNames, {}, typeParametersUid,
                     typeParametersSymbolUid) :
     isAnnotating \in BOOLEAN, suppressTypeNames \in {{}, {"T"}},
     typeParametersUid \in {"", "_ATypeParameters"},
     typeParametersSymbolUid \in {"", "_ATypeParametersSymbol"}}

\* The paths convert is called on.
Paths(root) == typeAnnotationIterator(RootPath(root))

\* Nothing was converted yet.
NotEmitted == [index |-> 0, path |-> << >>, node |-> None, log |-> << >>]

\* The state of the type descriptors while the converter runs.
NoTypes ==
  /\ tps = << >>
  /\ fn = DefaultFn
  /\ partial = NoPartial
  /\ last = NoCall

InitConv ==
  /\ NoTypes
  /\ predicates = None
  /\ compiler = None
  /\ \/ program \in ClassPrograms /\ context \in ClassContexts
     \/ program \in FunctionPrograms \cup DeclarationPrograms \cup ObjectPrograms
          /\ context \in PlainContexts
  /\ emitted = NotEmitted

\* convert(context, path), path being the k-th path of the program: the
\* paths of a program are handed to convert one after the other.
Convert(k) ==
  /\ k = emitted.index + 1
  /\ k <= Len(Paths(program))
  /\ LET path == Paths(program)[k]
         result == convert(context, path)
     IN emitted' = [index |-> k, path |-> path, node |-> result.node,
                    log |-> result.log]
  /\ UNCHANGED <<program, context, predicates, compiler>>
  /\ UNCHANGED typeVars

\* Every program handed to convert.
Programs ==
  ClassPrograms \cup FunctionPrograms \cup DeclarationPrograms
    \cup ObjectPrograms

\* The most paths a program has.
MaxPaths ==
  CHOOSE n \in 1..40 :
    /\ \A root \in Programs : Len(Paths(root)) <= n
    /\ \E root \in Programs : Len(Paths(root)) = n

NextConv == \E k \in 1..MaxPaths : Convert(k)

SpecConv == InitConv /\ [][NextConv]_vars

(***************************************************************************)
(* The registry of type predicates.  A JavaScript value handed to a        *)
(* predicate is told by what the predicates ask of it: its typeof, the     *)
(* constructor it is an instance of, whether it is frozen, and the typeof  *)
(* of its property then.                                                   *)
(***************************************************************************)
JsValue(kind, class, frozen, then) ==
  [kind |-> kind, class |-> class, frozen |-> frozen, then |-> then]

\* undefined, null, a number and a string; objects of each class, frozen
\* and not, with and without a then; functions.
JsValues ==
  {JsValue(kind, "none", TRUE, "undefined") :
     kind \in {"undefined", "null", "number", "string"}}
  \cup
  {JsValue("object", class, frozen, then) :
     class \in {"Object", "Array", "Map", "Set", "Promise"},
     frozen \in BOOLEAN, then \in {"undefined", "function", "number"}}
  \cup
  {JsValue("function", "Function", frozen, then) :
     frozen \in BOOLEAN, then \in {"undefined", "function", "number"}}

\* typeof input
TypeofValue(input) == IF input.kind = "null" THEN "object" ELSE input.kind

\* input instanceof class
InstanceOf(input, class) == input.class = class

\* Array.isArray(input)
IsArray(input) == input.class = "Array"

\* Object.isFrozen(input)
IsFrozen(input) == input.frozen

\* The predicate of $ReadOnlyArray, were it to ask for an array only.
ReadOnlyArrayPredicateAnyArray(input) == IsArray(input)

\* The predicates registerTypePredicates sets.
ReadOnlyArrayPredicate(input) == IsArray(input) /\ IsFrozen(input)
ArrayPredicate(input) == IsArray(input)
MapPredicate(input) == InstanceOf(input, "Map")
SetPredicate(input) == InstanceOf(input, "Set")
PromisePredicate(input) ==
  IF InstanceOf(input, "Promise") THEN TRUE
  ELSE /\ input.kind # "null"
       /\ TypeofValue(input) \in {"object", "function"}
       /\ input.then = "function"

\* A predicate as the registry holds it: what it returns for each value.
Predicate(Test(_)) == [input \in JsValues |-> Test(input)]

\* context.setPredicate(name, predicate)
setPredicate(registry, name, predicate) ==
  [key \in DOMAIN registry \cup {name} |->
     IF key = name THEN predicate ELSE registry[key]]

\* The registries a context has before registerTypePredicates: none, and
\* one with predicates of the user, among them one for Array.
NoPredicates == [key \in {} |-> Predicate(ArrayPredicate)]
UserPredicates ==
  setPredicate(setPredicate(NoPredicates, "Foo", Predicate(MapPredicate)),
               "Array", Predicate(SetPredicate))

\* The names a predicate is asked for.
PredicateNames == {"$ReadOnlyArray", "Array", "Map", "Set", "Promise", "Foo"}

\* No predicate was called; before is the registry registerTypePredicates
\* found.
NoPredicateCall(before) ==
  [op |-> "none", registered |-> FALSE, before |-> before, name |-> "",
   input |-> JsValue("undefined", "none", TRUE, "undefined"), ret |-> FALSE]

InitPredicates ==
  /\ tps = << >>
  /\ fn = DefaultFn
  /\ partial = NoPartial
  /\ program = None
  /\ context = None
  /\ emitted = None
  /\ compiler = None
  /\ predicates \in {NoPredicates, UserPredicates}
  /\ last = NoPredicateCall(predicates)

registerTypePredicates ==
  /\ predicates' =
       setPredicate(
         setPredicate(
           setPredicate(
             setPredicate(
               setPredicate(predicates, "$ReadOnlyArray",
                            Predicate(ReadOnlyArrayPredicate)),
               "Array", Predicate(ArrayPredicate)),
             "Map", Predicate(MapPredicate)),
           "Set", Predicate(SetPredicate)),
         "Promise", Predicate(PromisePredicate))
  /\ last' = [NoPredicateCall(predicates) EXCEPT
                !.op = "registerTypePredicates", !.registered = TRUE]
  /\ UNCHANGED <<tps, fn, partial, program, context, emitted, compiler>>

\* The predicate registered for name is called with input.
CallPredicate(name, input) ==
  /\ name \in DOMAIN predicates
  /\ last' = [last EXCEPT !.op = "predicate", !.name = name,
                          !.input = input, !.ret = predicates[name][input]]
  /\ UNCHANGED <<tps, fn, partial, program, context, emitted, predicates,
               compiler>>

NextPredicates ==
  \/ registerTypePredicates
  \/ \E name \in PredicateNames, input \in JsValues : CallPredicate(name, input)

SpecPredicates == InitPredicates /\ [][NextPredicates]_vars

(***************************************************************************)
(* The playground page.  TryPage holds one Compiler; its handlers write    *)
(* the flags of the compiler and hand a source text to updateCode.         *)
(***************************************************************************)
\* The most events a page handles.
MaxEvents == 4

\* The source texts typed or selected: the default example and another.
Codes == {"defaultExample", "fixture"}

\* new Compiler(code, ...), with the flags it starts with.
Compiler(code, shouldAssert, shouldWarn, shouldAnnotate) ==
  [code |-> code, shouldAssert |-> shouldAssert, shouldWarn |-> shouldWarn,
   shouldAnnotate |-> shouldAnnotate, updates |-> << >>]

\* compiler.updateCode(code): the compiler takes the code, and compiles it
\* under the flags it has at the call.
updateCode(c, code) ==
  [c EXCEPT !.code = code,
            !.updates = Append(@, [code |-> code,
                                   shouldAssert |-> c.shouldAssert,
                                   shouldWarn |-> c.shouldWarn,
                                   shouldAnnotate |-> c.shouldAnnotate])]

\* The latest event of the page: the handler, and the compiler before it.
Event(handler, before) == [op |-> handler, before |-> before]

\* The page handles another event.
Handles == Len(compiler.updates) < MaxEvents

\* constructor: the compiler starts with the default example, in one of the
\* modes assert, warn and off.
InitPage ==
  /\ tps = << >>
  /\ fn = DefaultFn
  /\ partial = NoPartial
  /\ program = None
  /\ context = None
  /\ emitted = None
  /\ predicates = None
  /\ compiler \in {Compiler("defaultExample", shouldAssert, shouldWarn,
                            shouldAnnotate) :
                     shouldAssert \in BOOLEAN, shouldWarn \in BOOLEAN,
                     shouldAnnotate \in BOOLEAN}
  /\ ~(compiler.shouldAssert /\ compiler.shouldWarn)
  /\ last = Event("constructor", compiler)

handleChange(code) ==
  /\ Handles
  /\ compiler' = updateCode(compiler, code)
  /\ last' = Event("handleChange", compiler)
  /\ UNCHANGED <<tps, fn, partial, program, context, emitted, predicates>>

handleSelectExample(value) ==
  /\ Handles
  /\ compiler' = updateCode(compiler, value)
  /\ last' = Event("handleSelectExample", compiler)
  /\ UNCHANGED <<tps, fn, partial, program, context, emitted, predicates>>

\* handleClickAssertions, were it to leave shouldWarn as it is.
handleClickAssertionsKeepingWarnings ==
  /\ Handles
  /\ LET toggled == [compiler EXCEPT !.shouldAssert = ~compiler.shouldAssert]
     IN compiler' = updateCode(toggled, toggled.code)
  /\ last' = Event("handleClickAssertions", compiler)
  /\ UNCHANGED <<tps, fn, partial, program, context, emitted, predicates>>

handleClickAssertions ==
  /\ Handles
  /\ LET toggled == [compiler EXCEPT !.shouldAssert = ~compiler.shouldAssert]
         exclusive == IF toggled.shouldAssert
                        THEN [toggled EXCEPT !.shouldWarn = FALSE]
                        ELSE toggled
     IN compiler' = updateCode(exclusive, exclusive.code)
  /\ last' = Event("handleClickAssertions", compiler)
  /\ UNCHANGED <<tps, fn, partial, program, context, emitted, predicates>>

handleClickWarnings ==
  /\ Handles
  /\ LET toggled == [compiler EXCEPT !.shouldWarn = ~compiler.shouldWarn]
         exclusive == IF toggled.shouldWarn
                        THEN [toggled EXCEPT !.shouldAssert = FALSE]
                        ELSE toggled
     IN compiler' = updateCode(exclusive, exclusive.code)
  /\ last' = Event("handleClickWarnings", compiler)
  /\ UNCHANGED <<tps, fn, partial, program, context, emitted, predicates>>

handleClickAnnotation ==
  /\ Handles
  /\ LET toggled == [compiler EXCEPT
                       !.shouldAnnotate = ~compiler.shouldAnnotate]
     IN compiler' = updateCode(toggled, toggled.code)
  /\ last' = Event("handleClickAnnotation", compiler)
  /\ UNCHANGED <<tps, fn, partial, program, context, emitted, predicates>>

NextPage ==
  \/ \E code \in Codes : handleChange(code)
  \/ \E value \in Codes : handleSelectExample(value)
  \/ handleClickAssertions
  \/ handleClickWarnings
  \/ handleClickAnnotation

SpecPage == InitPage /\ [][NextPage]_vars

(***************************************************************************)
(* Properties.                                                             *)
(***************************************************************************)
\* The latest call was accepts or collectErrors on a stand-alone type
\* parameter.
IsCheck == last.op \in {"accepts", "collectErrors"} /\ last.target \in DOMAIN last.pre

\* C1: for every state of a TypeParameter and every value v, from the same
\* state accepts(v) returns true exactly when
\* collectErrors(emptyValidation, [], v) returns false.
C1_AcceptsIffNotCollectErrors ==
  \A p \in DOMAIN tps, v \in Values :
    TPAccepts(tps, p, v).ret = ~TPCollectErrors(tps, << >>, << >>, p, v).ret

\* C2: for every state of a TypeParameter and every value v, from the same
\* state accepts(v) is true exactly when collectErrors on an empty
\* Validation with an empty path leaves no error record in it.
C2_AcceptsIffNoErrorRecord ==
  \A p \in DOMAIN tps, v \in Values :
    TPAccepts(tps, p, v).ret
      = (TPCollectErrors(tps, << >>, << >>, p, v).errors = << >>)

\* C3: once a TypeParameter whose bound is no FlowIntoType has a recorded
\* type, accepts and collectErrors on it leave recorded as it is, and
\* accepts(v) returns recorded.accepts(v), whatever the bound.
C3_RecordedIsFinal ==
  IsCheck =>
    LET p == last.target
        before == last.pre[p]
    IN (before.recorded # None /\ ~IsFlowInto(before.bound)) =>
         (/\ tps[p].recorded = before.recorded
          /\ (last.op = "accepts" =>
                last.ret = Accepts(last.pre, before.recorded, last.input).ret))

\* A parameter that recorded a number and is bound to number | string has
\* rejected a string.
C3_Witness ==
  /\ IsCheck /\ last.op = "accepts"
  /\ last.pre[last.target].recorded = NumberType
  /\ last.pre[last.target].bound = UnionType(<<NumberType, StringType>>)
  /\ last.input = "sa"
  /\ ~last.ret

\* C4: accepts(v) on a TypeParameter with no recorded type, whose bound is
\* absent or an ordinary bound accepting v, returns true and sets recorded
\* to typeOf(v); the accepts(w) that follows returns typeOf(v).accepts(w).
C4_FirstObservationFixes ==
  (IsCheck /\ last.op = "accepts") =>
    LET p == last.target IN
    /\ (IsFirstObservation(last.pre, p, last.input) =>
          (last.ret /\ tps[p].recorded = typeOf(last.input)))
    /\ ((last.prev.fresh /\ last.prev.target = p) =>
          last.ret = PrimAccepts(typeOf(last.prev.input), last.input))

\* A first observation of a number was followed by a string, rejected.
C4_Witness ==
  /\ IsCheck /\ last.op = "accepts"
  /\ last.prev.fresh /\ last.prev.target = last.target
  /\ last.prev.input = "n1" /\ last.input = "sa"
  /\ last.pre[last.target].recorded = NumberType
  /\ ~last.ret

\* C5: when the bound of a TypeParameter is a FlowIntoType, accepts(v)
\* returns what bound.accepts(v) returns, and neither accepts nor
\* collectErrors writes the parameter's own recorded field.  The same holds
\* of a parameter whose recorded field was set by hand beforehand: the test
\* for a FlowIntoType bound comes before the test for a recorded type.
C5_FlowIntoBoundDelegates ==
  /\ IsCheck =>
       LET p == last.target
           before == last.pre[p]
       IN IsFlowInto(before.bound) =>
            (/\ tps[p].recorded = before.recorded
             /\ (last.op = "accepts" =>
                   (/\ last.ret = Accepts(last.pre, before.bound, last.input).ret
                    /\ tps = Accepts(last.pre, before.bound, last.input).store)))
  /\ \A p \in DOMAIN tps, v \in Values, r \in {NumberType, StringType} :
       IsFlowInto(tps[p].bound) =>
         LET s == [tps EXCEPT ![p].recorded = r] IN
         /\ TPAccepts(s, p, v) = Accepts(s, s[p].bound, v)
         /\ TPCollectErrors(s, << >>, << >>, p, v).store[p].recorded = r

\* A parameter bound to a FlowIntoType accepted a value, which the wrapped
\* parameter recorded while the parameter itself recorded nothing.
C5_Witness ==
  /\ IsCheck /\ last.op = "accepts"
  /\ IsFlowInto(last.pre[last.target].bound)
  /\ last.ret
  /\ tps[last.target].recorded = None
  /\ LET q == last.pre[last.target].bound.typeParameter IN
     last.pre[q].recorded = None /\ tps[q].recorded = typeOf(last.input)

\* C6: a TypeParameter with no recorded type whose bound is any or the
\* existential type accepts every value and never records.
C6_UnconstrainedNeverRecords ==
  /\ \A p \in DOMAIN tps :
       (tps[p].bound.typeName \in {"AnyType", "ExistentialType"} =>
          tps[p].recorded = None)
  /\ (IsCheck =>
        LET p == last.target IN
        (IsUnconstrained(last.pre, p) =>
           (/\ (last.op = "accepts" => last.ret)
            /\ (last.op = "collectErrors" =>
                  (~last.ret /\ last.errors = << >>))
            /\ tps[p].recorded = None)))

\* A parameter bound to any accepted a number and then a string.
C6_Witness ==
  /\ IsCheck /\ last.op = "accepts"
  /\ IsUnconstrained(last.pre, last.target)
  /\ last.prev.op = "accepts" /\ last.prev.target = last.target
  /\ last.prev.ret /\ last.prev.input = "n1"
  /\ last.ret /\ last.input = "sa"
  /\ tps[last.target].recorded = None

\* C7: when accepts returns false, or collectErrors returns true, the
\* parameter's recorded field is what it was before the call.
C7_RejectionLeavesRecorded ==
  IsCheck =>
    (((last.op = "accepts" /\ ~last.ret)
        \/ (last.op = "collectErrors" /\ last.ret)) =>
       tps[last.target].recorded = last.pre[last.target].recorded)

\* An unrecorded parameter bound to number rejected a string and is still
\* unrecorded.
C7_Witness ==
  /\ IsCheck /\ last.op = "accepts"
  /\ last.pre[last.target].bound = NumberType
  /\ last.pre[last.target].recorded = None
  /\ last.input = "sa"
  /\ ~last.ret
  /\ tps[last.target].recorded = None

\* The operations of ParameterizedFunctionType that check or inspect.
FnOperations ==
  {"accepts", "collectErrors", "acceptsType", "acceptsParams",
   "acceptsReturn", "assertParams", "assertReturn", "unwrap",
   "typeParameters", "params", "rest", "returnType"}

\* The partial a call on fn gets when nothing was ever called before it.
Pristine(call) == BindTypeInstances(NewPartial(fn), call.instances)

\* What a call returns when made on that partial.
PristineOutcome(call) ==
  CASE call.op = "accepts" -> PartialAccepts(Pristine(call), call.input)
    [] call.op = "collectErrors" ->
         PartialCollectErrors(Pristine(call), call.input)
    [] call.op = "acceptsType" ->
         PartialAcceptsType(Pristine(call), call.result)
    [] call.op = "acceptsParams" ->
         PartialAcceptsParams(Pristine(call), call.args)
    [] call.op = "acceptsReturn" ->
         PartialAcceptsReturn(Pristine(call), call.input)
    [] call.op = "assertParams" ->
         PartialAssertParams(Pristine(call), call.args)
    [] call.op = "assertReturn" ->
         PartialAssertReturn(Pristine(call), call.input)
    [] OTHER -> Outcome(FALSE, << >>, Pristine(call).typeParameters)

\* The descriptor a call hands back when made on that partial.
PristineResult(call) ==
  CASE call.op = "unwrap" -> PartialUnwrap(Pristine(call))
    [] call.op = "acceptsType" -> call.result
    [] OTHER -> PartialField(Pristine(call), call.op)

\* C8: every checking operation of a ParameterizedFunctionType works on a
\* new partial whose type parameters have no recorded type, and returns
\* what it would return had no call been made before it.
C8_EveryCallStartsFresh ==
  last.op \in FnOperations =>
    /\ Len(last.partial0.typeParameters) = Len(fn.bodyCreator.typeParameters)
    /\ \A i \in DOMAIN last.partial0.typeParameters :
         last.partial0.typeParameters[i].recorded = None
    /\ last.ret = PristineOutcome(last).ret
    /\ last.errors = PristineOutcome(last).errors
    /\ last.result = PristineResult(last)
    /\ partial.typeParameters = PristineOutcome(last).store

\* After a call that left recorded type parameters behind, acceptsParams
\* accepted a number and a string and recorded them in its own partial.
C8_Witness ==
  /\ last.op = "acceptsParams"
  /\ last.leftover
  /\ last.args = <<"sa", "n1">>
  /\ last.ret
  /\ HasRecorded(partial)
  /\ ~HasRecorded(last.partial0)

\* C9: getPartial called with type instances I on a function declaring the
\* parameters P binds, for each i up to min(Len(I), Len(P)), parameter i to
\* I[i] when it has no bound or its bound is the very object I[i], and to
\* intersect(oldBound, I[i]) otherwise; the parameters after Len(I) keep
\* their declared bound and the type instances after Len(P) are ignored.
C9_BindingAtApplication ==
  last.op \in FnOperations =>
    LET P == fn.bodyCreator.typeParameters
        I == last.instances
        B == last.partial0.typeParameters
    IN /\ Len(B) = Len(P)
       /\ \A i \in DOMAIN P :
            /\ B[i].id = P[i].id
            /\ B[i].bound =
                 IF i > Len(I) THEN P[i].bound
                 ELSE IF P[i].bound = None \/ P[i].bound = I[i] THEN I[i]
                 ELSE intersect(P[i].bound, I[i])

\* One type instance for two parameters: the first is bound to the very
\* object passed, the second keeps the bound it was declared with.
C9_Witness ==
  /\ last.op = "accepts"
  /\ Len(last.instances) = 1
  /\ Len(fn.bodyCreator.typeParameters) = 2
  /\ fn.bodyCreator.typeParameters[1].bound = last.instances[1]
  /\ fn.bodyCreator.typeParameters[2].bound = FlowIntoType(1)
  /\ last.partial0.typeParameters[1].bound = last.instances[1]
  /\ last.partial0.typeParameters[2].bound = FlowIntoType(1)

\* C10: unwrap is idempotent.  What a type parameter unwraps to unwraps to
\* itself, whatever the parameter has recorded or is bound to, and so does
\* what ParameterizedFunctionType.unwrap returned.
C10_UnwrapIdempotent ==
  /\ \A i \in DOMAIN partial.typeParameters :
       UnwrapType(partial.typeParameters,
                  TPUnwrap(partial.typeParameters, i))
         = TPUnwrap(partial.typeParameters, i)
  /\ last.op \in {"unwrap", "typeParameter.unwrap"} =>
       UnwrapType(partial.typeParameters, last.result) = last.result

\* A type parameter bound to another one that has recorded a string was
\* unwrapped to the string type.
C10_Witness ==
  /\ last.op = "typeParameter.unwrap"
  /\ last.target = 2
  /\ last.pre[2].bound = TypeParameterRef(1)
  /\ last.pre[2].recorded = None
  /\ last.pre[1].recorded = StringType
  /\ last.result = StringType

\* The operations of ParameterizedFunctionType, toString and toJSON included.
AllFnOperations == FnOperations \cup {"toString", "toJSON"}

\* The operations of a type parameter of a partial that only read it.
ReadingOperations ==
  {"typeParameter.acceptsType", "typeParameter.unwrap",
   "typeParameter.toString", "typeParameter.toJSON"}

\* What the operations on type parameters leave alone: an operation of fn,
\* which runs accepts and collectErrors on the parameters of its partial,
\* leaves their id and bound as getPartial handed them out; acceptsType,
\* unwrap, toString and toJSON leave every parameter as it was.
OnlyRecordedIsWritten ==
  /\ last.op \in AllFnOperations =>
       /\ Len(partial.typeParameters) = Len(last.partial0.typeParameters)
       /\ \A i \in DOMAIN partial.typeParameters :
            /\ partial.typeParameters[i].id
                 = last.partial0.typeParameters[i].id
            /\ partial.typeParameters[i].bound
                 = last.partial0.typeParameters[i].bound
  /\ last.op \in ReadingOperations => partial.typeParameters = last.pre

\* C11 as stated: the only field an operation on a TypeParameter writes is
\* recorded, no operation of a ParameterizedFunctionType changes its
\* bodyCreator, and a type parameter has, whenever it is used, the bound it
\* was constructed with by the body creator.
C11_BoundNeverReassigned ==
  /\ [](OnlyRecordedIsWritten
        /\ (last.op \in AllFnOperations =>
              \A i \in DOMAIN last.partial0.typeParameters :
                last.partial0.typeParameters[i].bound
                  = fn.bodyCreator.typeParameters[i].bound))
  /\ [][fn'.bodyCreator = fn.bodyCreator]_vars

\* C11, amended: the only field an operation on a TypeParameter writes is
\* recorded, no operation of a ParameterizedFunctionType changes its
\* bodyCreator, and the bound a type parameter was constructed with is
\* reassigned by getPartial alone, for the parameters it binds a type
\* instance to, before the partial is used; every other parameter keeps the
\* bound it was constructed with.
C11_BoundReassignedByBindingOnly ==
  /\ [](OnlyRecordedIsWritten
        /\ (last.op \in AllFnOperations =>
              \A i \in DOMAIN last.partial0.typeParameters :
                i > Len(last.instances) =>
                  last.partial0.typeParameters[i].bound
                    = fn.bodyCreator.typeParameters[i].bound))
  /\ [][fn'.bodyCreator = fn.bodyCreator]_vars

\* assertParams recorded on a type parameter declared with a bound, whose
\* id and bound are what they were.
C11_Witness ==
  /\ last.op = "assertParams"
  /\ last.ret
  /\ ~HasRecorded(last.partial0)
  /\ \E i \in DOMAIN partial.typeParameters :
       /\ partial.typeParameters[i].recorded = NumberType
       /\ fn.bodyCreator.typeParameters[i].bound # None
       /\ partial.typeParameters[i].bound
            = fn.bodyCreator.typeParameters[i].bound
       /\ partial.typeParameters[i].id = fn.bodyCreator.typeParameters[i].id

(***************************************************************************)
(* Properties of the annotation converter.                                 *)
(***************************************************************************)
\* convert was called on a path of the program.
Converted == emitted.index > 0

\* A built node without its location.
Bare(node) == [node EXCEPT !.loc = NoLoc]

\* The type of the path convert was called on has no entry in the
\* converters table.
NoEntry == Converted /\ TypeOf(emitted.path) \notin converters

\* C12: convert never fails on an unsupported node kind: for a path whose
\* type has no entry in the converters table and that is neither a class nor
\* a function it logs one warning naming the type and returns the call any()
\* carrying the location of the node; a class path without an entry gets
\* what converters.Class builds and a function path without an entry what
\* converters.Function builds.
C12_UnsupportedKindFallsBackToAny ==
  NoEntry =>
    LET path == emitted.path IN
    /\ (~IsClass(path) /\ ~IsFunction(path)) =>
         /\ emitted.log = <<Warning(TypeOf(path))>>
         /\ Bare(emitted.node) = Call("any", << >>)
         /\ emitted.node.loc = Loc(path)
    /\ IsClass(path) =>
         /\ IsCall(emitted.node, "class")
         /\ Bare(emitted.node) = Bare(ClassConverter(context, path).node)
         /\ emitted.log = ClassConverter(context, path).log
    /\ (~IsClass(path) /\ IsFunction(path)) =>
         /\ IsCall(emitted.node, "function")
         /\ Bare(emitted.node) = Bare(FunctionConverter(context, path).node)
         /\ emitted.log = FunctionConverter(context, path).log

\* convert was called on a variable declarator, which has no converter, and
\* handed back any() with a warning.
C12_Witness ==
  /\ NoEntry
  /\ TypeOf(emitted.path) = "VariableDeclarator"
  /\ IsCall(emitted.node, "any")
  /\ emitted.node.loc = Loc(emitted.path)
  /\ Len(emitted.log) = 1

\* convert was called on a GenericTypeAnnotation.
ConvertedReference == Converted /\ TypeOf(emitted.path) = "GenericTypeAnnotation"

\* The name a converted reference resolves, and what it resolves to.
EmittedName == ReferenceName(Get(emitted.path, "id"))
EmittedEntity == getEntity(context, EmittedName)

\* The name of the converted reference is a type parameter of an annotation
\* around it.
EmittedParentParameter ==
  annotationParentHasTypeParameter(emitted.path, EmittedName)

\* t.flowInto(node) and t.box(() => node)
FlowInto(node) == Call("flowInto", <<node>>)
Box(node) == Call("box", <<arrowFunctionExpression(<< >>, node)>>)

\* node is inner, bare or wrapped in box, in flowInto or in both.
IsWrapped(node, inner) ==
  Bare(node) \in {inner, FlowInto(inner), Box(inner), FlowInto(Box(inner))}

C14_ArrayIsAlwaysArrayCall ==
  (ConvertedReference /\ EmittedName = "Array") =>
    Bare(emitted.node)
      = Call("array",
             ConvertEach(context, getTypeParameters(emitted.path), 1).nodes)

\* The walk of the flowable-position detection as the specification states
\* it, from the path subject upwards: it ends at a class property or at a
\* node of a function's params list, whatever the form of the parameter,
\* and fails at a statement that is no annotation.
RECURSIVE ReachesFlowablePositionFrom(_)
ReachesFlowablePositionFrom(subject) ==
  IF subject = << >> THEN FALSE
  ELSE IF IsType(subject, "ClassProperty") THEN TRUE
  ELSE IF /\ IsFunction(ParentPath(subject))
          /\ subject[Len(subject)].listKey = "params"
    THEN TRUE
  ELSE IF IsFlow(subject)
    THEN ReachesFlowablePositionFrom(ParentPath(subject))
  ELSE IF IsStatement(subject) THEN FALSE
  ELSE ReachesFlowablePositionFrom(ParentPath(subject))

ReachesFlowablePosition(annotation) ==
  ReachesFlowablePositionFrom(ParentPath(annotation))

\* C15: typeParameterCanFlow(annotation) is true exactly when the walk up
\* the ancestors reaches a class property or a node of a function's params
\* list before a statement that is no annotation, for every form of
\* parameter: identifier, array or object pattern, parameter with a default
\* value, rest parameter.
C15_CanFlowIffFlowablePosition ==
  ConvertedReference =>
    typeParameterCanFlow(emitted.path) = ReachesFlowablePosition(emitted.path)

\* The converted reference is emitted inside flowInto: as the call flowInto
\* itself, or as a ref call on it.
EmittedInFlowInto ==
  \/ IsCall(emitted.node, "flowInto")
  \/ /\ IsCall(emitted.node, "ref")
     /\ IsCall(ArgumentsOf(emitted.node)[1], "flowInto")

\* The converted reference names a type parameter: of a function or an
\* alias, of a class, or of an annotation around it.
EmittedNamesTypeParameter ==
  \/ EmittedEntity \in {"TypeParameter", "ClassTypeParameter"}
  \/ EmittedParentParameter

ConvertedDeclaration ==
  Converted /\ TypeOf(emitted.path) \in {"TypeAlias", "InterfaceDeclaration"}

\* The body of the converted declaration: the right of an alias, the body of
\* an interface.
DeclaredBody ==
  Get(emitted.path, IF TypeOf(emitted.path) = "TypeAlias" THEN "right" ELSE "body")

\* name.typeParameter("T", bound?) for the type parameter at path.
TypeParameterBinding(name, typeParameter) ==
  variableDeclarator(
    identifier(NodeOf(typeParameter).name),
    callExpression(
      memberExpression(identifier(name), identifier("typeParameter")),
      <<stringLiteral(NodeOf(typeParameter).name)>>
        \o (IF Has(typeParameter, "bound")
              THEN <<convert(context, Get(typeParameter, "bound")).node>>
              ELSE << >>)))

\* What the declaration named name is to hand to type() as its second
\* argument, body being its converted body.
ExpectedDeclarationBody(name, typeParameters, referencesItself, body) ==
  IF Len(typeParameters) > 0
    THEN arrowFunctionExpression(
           <<identifier(name)>>,
           blockStatement(
             <<variableDeclaration(
                 "const",
                 [i \in 1..Len(typeParameters) |->
                    TypeParameterBinding(name, typeParameters[i])]),
               returnStatement(body)>>))
  ELSE IF referencesItself
    THEN arrowFunctionExpression(
           <<identifier(name)>>, blockStatement(<<returnStatement(body)>>))
  ELSE body

\* C17: for every TypeAlias and every InterfaceDeclaration named X convert
\* emits const X = type("X", B), where B is an arrow function of the one
\* parameter X exactly when the declaration has type parameters or its body
\* references X, and the converted body itself otherwise; with type
\* parameters the arrow declares X.typeParameter(name, bound?) for each, in
\* the order they are declared, and then returns the body.
C17_DeclarationIsTypeOfBodyOrThunk ==
  ConvertedDeclaration =>
    LET name == NodeOf(Get(emitted.path, "id")).name
        typeParameters == getTypeParameters(emitted.path)
        body == convert(context, DeclaredBody).node
    IN Bare(emitted.node)
         = variableDeclaration(
             "const",
             <<variableDeclarator(
                 identifier(name),
                 Call("type",
                      <<stringLiteral(name),
                        ExpectedDeclarationBody(
                          name, typeParameters,
                          annotationReferencesId(DeclaredBody, name),
                          body)>>))>>)

\* C18: every reference to a name listed in suppressTypeNames is converted
\* to any(): a GenericTypeAnnotation whose name (the outermost object of a
\* qualified name) is suppressed, whatever its type arguments and whatever
\* the name resolves to, and an InterfaceExtends of a suppressed name alike.
C18_SuppressedNameIsAny ==
  (/\ Converted
   /\ TypeOf(emitted.path) \in {"GenericTypeAnnotation", "InterfaceExtends"}
   /\ EmittedName \in context.suppressTypeNames) =>
    Bare(emitted.node) = Call("any", << >>)

\* The converted reference is to a class type parameter and is not emitted
\* as a direct identifier: it is read from where the class stores it.
EmittedFromStorage ==
  /\ ConvertedReference
  /\ EmittedEntity = "ClassTypeParameter"
  /\ ~context.isAnnotating
  /\ ~EmittedParentParameter
  /\ EmittedName \notin context.suppressTypeNames

\* The storage target of the converted reference: what is emitted, without
\* the ref call and the flowInto call around it.
EmittedTarget ==
  LET inner == IF IsCall(emitted.node, "ref")
                 THEN ArgumentsOf(emitted.node)[1] ELSE emitted.node
  IN Bare(IF IsCall(inner, "flowInto") THEN ArgumentsOf(inner)[1] ELSE inner)

\* The class methods around the converted reference, by their place in its
\* path.
EnclosingMethods ==
  {k \in 1..(Len(emitted.path) - 1) : emitted.path[k].node.type = "ClassMethod"}

\* The nearest class method around the reference is static.
InStaticMethod ==
  /\ EnclosingMethods # {}
  /\ LET nearest == CHOOSE k \in EnclosingMethods :
                      \A other \in EnclosingMethods : other <= k
     IN "static" \in emitted.path[nearest].node.flags

\* The reference is inside a constructor of a class with a superclass, its
\* own class or one around it.
InConstructorWithSuper ==
  \E k \in EnclosingMethods :
    /\ "constructor" \in emitted.path[k].node.flags
    /\ "superClass" \in DOMAIN emitted.path[k - 2].node.kids

\* Whether an expression reads through this.
RECURSIVE ReadsThis(_)
ReadsThis(node) ==
  \/ node.type = "ThisExpression"
  \/ \E i \in DOMAIN node.parts : ReadsThis(node.parts[i])

\* C19: a reference to a class type parameter that is not emitted as a
\* direct identifier is read from, in this order of priority: (1) Uid.T when
\* typeParametersUid is allocated and the nearest class method around it is
\* static; (2) Uid.T when typeParametersUid is allocated and it is inside a
\* constructor of a class, its own or one around it, that has a superclass;
\* (3) this[SymbolUid].T when typeParametersSymbolUid is allocated; (4)
\* this[this[TypeParameters]].T otherwise.  In a static method it never
\* reads through this when a uid is allocated.
C19_StorageTargetPriority ==
  EmittedFromStorage =>
    LET subject == ReferenceSubject(Get(emitted.path, "id"))
        uid == context.typeParametersUid
        symbolUid == context.typeParametersSymbolUid
    IN
    /\ EmittedTarget =
         IF uid # "" /\ InStaticMethod
           THEN memberExpression(identifier(uid), subject)
         ELSE IF uid # "" /\ InConstructorWithSuper
           THEN memberExpression(identifier(uid), subject)
         ELSE IF symbolUid # ""
           THEN memberExpression(
                  computedMemberExpression(thisExpression,
                                           identifier(symbolUid)),
                  subject)
         ELSE memberExpression(
                computedMemberExpression(
                  thisExpression,
                  computedMemberExpression(
                    thisExpression,
                    memberExpression(identifier(libraryId),
                                     identifier("TypeParameters")))),
                subject)
    /\ (uid # "" /\ InStaticMethod) => ~ReadsThis(emitted.node)

\* A reference in the constructor of a class without a superclass, nested in
\* the constructor of a class with one, both uids allocated, was read from
\* the uid and not through this.
C19_Witness ==
  /\ EmittedFromStorage
  /\ context.typeParametersUid # ""
  /\ context.typeParametersSymbolUid # ""
  /\ ~InStaticMethod
  /\ InConstructorWithSuper
  /\ Cardinality(EnclosingMethods) = 2
  /\ EmittedTarget
       = memberExpression(identifier(context.typeParametersUid), identifier("T"))
  /\ ~ReadsThis(emitted.node)

(***************************************************************************)
(* Properties of the registry of type predicates.                          *)
(***************************************************************************)
\* The names registerTypePredicates registers.
RegisteredNames == {"Array", "$ReadOnlyArray", "Map", "Set", "Promise"}

\* C20: after registerTypePredicates(context) the context holds predicates
\* for exactly the names Array, $ReadOnlyArray, Map, Set and Promise (beside
\* those of other names it held before); every value the $ReadOnlyArray
\* predicate accepts the Array predicate accepts, and it accepts exactly the
\* frozen arrays; the Promise predicate accepts a value exactly when it is a
\* Promise instance or a non-null object or function whose then is a
\* function.
C20_RegisteredPredicates ==
  last.registered =>
    /\ DOMAIN predicates = RegisteredNames \cup DOMAIN last.before
    /\ last.before = NoPredicates => DOMAIN predicates = RegisteredNames
    /\ \A name \in DOMAIN predicates \ RegisteredNames :
         predicates[name] = last.before[name]
    /\ \A input \in JsValues :
         /\ predicates["$ReadOnlyArray"][input] => predicates["Array"][input]
         /\ predicates["$ReadOnlyArray"][input]
              <=> (input.class = "Array" /\ input.frozen)
         /\ predicates["Array"][input] <=> input.class = "Array"
         /\ predicates["Promise"][input]
              <=> \/ input.class = "Promise"
                  \/ /\ input.kind \in {"object", "function"}
                     /\ input.then = "function"
    /\ (last.op = "predicate" /\ last.name = "Promise") =>
         (last.ret <=> \/ last.input.class = "Promise"
                       \/ /\ last.input.kind \in {"object", "function"}
                          /\ last.input.then = "function")

\* After registration in a fresh context the Promise predicate accepted a
\* function that is no Promise and has a then that is a function.
C20_Witness ==
  /\ last.registered
  /\ last.before = NoPredicates
  /\ last.op = "predicate"
  /\ last.name = "Promise"
  /\ last.input.kind = "function"
  /\ last.input.then = "function"
  /\ last.ret

(***************************************************************************)
(* Properties of the conversion of object types.                           *)
(***************************************************************************)
\* convert was called on the path of an object type.
ConvertedObjectType ==
  Converted /\ TypeOf(emitted.path) = "ObjectTypeAnnotation"

\* The paths of the members of an object type, list by list.
MemberPaths(path) ==
  GetAll(path, "callProperties") \o GetAll(path, "properties")
    \o GetAll(path, "indexers")

\* The paths of the members of an object type in the order the members are
\* declared in the source: by their offsets.
DeclaredOrder(path) ==
  LET members == MemberPaths(path)
      Before(i) == {j \in DOMAIN members :
                      NodeOf(members[j]).start < NodeOf(members[i]).start}
  IN [k \in DOMAIN members |->
        members[CHOOSE i \in DOMAIN members : Cardinality(Before(i)) = k - 1]]

\* The emitted call takes what convert makes of each of the paths, in order.
EmittedMembers(paths) ==
  /\ Len(ArgumentsOf(emitted.node)) = Len(paths)
  /\ \A i \in DOMAIN paths :
       ArgumentsOf(emitted.node)[i] = convert(context, paths[i]).node

\* The emitted call is exactObject(...) for an exact object type and
\* object(...) for any other.
EmittedExactness ==
  IsCall(emitted.node,
         IF "exact" \in NodeOf(emitted.path).flags
           THEN "exactObject" ELSE "object")

\* C21: an ObjectTypeAnnotation is converted to exactObject(...) exactly
\* when the node is marked exact and to object(...) otherwise, with one
\* argument per member, and the members appear in the emitted call in the
\* order they are declared in the source annotation.
C21_ObjectMembersInDeclaredOrder ==
  ConvertedObjectType =>
    /\ EmittedExactness
    /\ EmittedMembers(DeclaredOrder(emitted.path))

\* What the converter does: the members appear list by list, the call
\* properties first, then the properties, then the indexers.
ObjectMembersListByList ==
  ConvertedObjectType =>
    /\ EmittedExactness
    /\ EmittedMembers(MemberPaths(emitted.path))

\* An object type whose members are declared in another order than list by
\* list was converted.
ObjectDeclaredOutOfListOrder ==
  /\ ConvertedObjectType
  /\ DeclaredOrder(emitted.path) # MemberPaths(emitted.path)

(***************************************************************************)
(* Properties of TypeParameter.acceptsType.                                *)
(***************************************************************************)
\* acceptsType was called on a stand-alone type parameter.
AskedAcceptsType == last.op = "acceptsType"

\* What the descriptor t of the store the call started from answers about
\* the input of the call.
AnsweredBy(t) == AcceptsType(last.pre, t, last.result).ret

\* C22: acceptsType(input) of a type parameter returns true for every input
\* that is itself a type parameter, whatever either parameter has recorded
\* or is bound to; for any other input it returns recorded.acceptsType(input)
\* if recorded is set, else bound.acceptsType(input) if bound is set, else
\* true; and it never records: the type parameters are after the call what
\* they were before it.
C22_AcceptsTypeDelegatesAndNeverRecords ==
  AskedAcceptsType =>
    LET recorded == last.pre[last.target].recorded
        bound == last.pre[last.target].bound
    IN /\ last.result.typeName = "TypeParameter" => last.ret
       /\ (last.result.typeName # "TypeParameter" /\ recorded # None) =>
            last.ret = AnsweredBy(recorded)
       /\ (last.result.typeName # "TypeParameter" /\ recorded = None
             /\ bound # None) =>
            last.ret = AnsweredBy(bound)
       /\ (last.result.typeName # "TypeParameter" /\ recorded = None
             /\ bound = None) => last.ret
       /\ tps = last.pre

\* acceptsType was asked about a descriptor that the recorded type of the
\* parameter rejects and its bound accepts, and returned false.
C22_Witness ==
  /\ AskedAcceptsType
  /\ last.result.typeName # "TypeParameter"
  /\ last.pre[last.target].recorded # None
  /\ last.pre[last.target].bound # None
  /\ ~AnsweredBy(last.pre[last.target].recorded)
  /\ AnsweredBy(last.pre[last.target].bound)
  /\ ~last.ret
  /\ tps = last.pre

(***************************************************************************)
(* Properties of the playground page.                                      *)
(***************************************************************************)
\* The latest event was a click on one of the three buttons of the flags.
ClickedFlag ==
  last.op \in {"handleClickAssertions", "handleClickWarnings",
               "handleClickAnnotation"}

\* The latest call of updateCode.
LatestUpdate == compiler.updates[Len(compiler.updates)]

\* C23: in the playground page, starting from a compiler whose shouldAssert
\* and shouldWarn are not both true, after any sequence of
\* handleClickAssertions, handleClickWarnings and handleClickAnnotation
\* events (and of changes of the code) shouldAssert and shouldWarn are
\* never both true; handleClickAnnotation changes neither flag; and each of
\* the three handlers ends by calling updateCode with the unchanged current
\* code: one more call, made with the code the compiler had and has, under
\* the flags the handler leaves.
C23_ModeStaysExclusive ==
  /\ ~(compiler.shouldAssert /\ compiler.shouldWarn)
  /\ last.op = "handleClickAnnotation" =>
       /\ compiler.shouldAssert = last.before.shouldAssert
       /\ compiler.shouldWarn = last.before.shouldWarn
  /\ ClickedFlag =>
       /\ Len(compiler.updates) = Len(last.before.updates) + 1
       /\ LatestUpdate.code = last.before.code
       /\ compiler.code = last.before.code
       /\ LatestUpdate.shouldAssert = compiler.shouldAssert
       /\ LatestUpdate.shouldWarn = compiler.shouldWarn
       /\ LatestUpdate.shouldAnnotate = compiler.shouldAnnotate

\* The assertions were switched on while the warnings were on, after the
\* code was changed: the warnings are off, and updateCode got the changed
\* code.
C23_Witness ==
  /\ last.op = "handleClickAssertions"
  /\ last.before.shouldWarn
  /\ ~last.before.shouldAssert
  /\ compiler.shouldAssert
  /\ ~compiler.shouldWarn
  /\ last.before.code = "fixture"
  /\ LatestUpdate.code = "fixture"
====
